---------------------------- MODULE Spec2Model ----------------------------
(***************************************************************************)
(* componentized/valkey: the RESP codec (valkey-ops/src/resp/mod.rs), the  *)
(* Connection's send and typed commands, and connect                       *)
(* (valkey-ops/src/lib.rs).                                                *)
(*                                                                         *)
(* A byte is a one-character string; "xFF" stands for a byte that no UTF-8 *)
(* text contains.  A Rust String is the sequence of its bytes.  A Value is *)
(* a record [tag, val]; as in the source, the children of an Array, Map,   *)
(* Set or Push are NestedValues: the encoded bytes of the child.           *)
(* A result is Ok(v), Err(e) or Panic(m): Panic is an abort of the         *)
(* component (an index out of bounds, a failed expect).                    *)
(***************************************************************************)
EXTENDS Integers, Sequences, FiniteSets, TLC

VARIABLES
    \* codec harness (SpecCodec, SpecDecode)
    cpc,        \* position of the codec harness: "built" or "input", "encoded", "decoded",
                \* "reencoded"
    value,      \* the Value under test, as a result (Ok(v); Panic if nesting it aborted)
    depth,      \* nesting depth of value
    wire,       \* the protocol-conformant RESP frame of the same logical value
    encoded,    \* encode(value): Ok(bytes) or Panic
    decoded,    \* decode of the bytes of `encoded`, or of `wire`
    source,     \* "value": decoded comes from encode(value); "wire": from wire;
                \* SpecDecode: what the buffer in wire is ("frame", "odd",
                \* "truncated", "cut", "bare", "prefix")
    \* one Connection and its caller (SpecSend, SpecCmd)
    pc,         \* caller: "idle", "reading" (request written, inside send), "done", "aborted"
    call,       \* the call in progress: [cmd, opts]
    nsent,      \* number of calls started on this Connection
    output,     \* requests written to the output stream, in order
    owed,       \* numbers of the requests the server has not replied to yet
    input,      \* bytes the server sent that no read has returned yet: <<byte, request#>>
    closed,     \* the peer closed the stream
    frames,     \* the reply frame the server sent for each request, in order
    chunk,      \* what the last blocking_read returned: <<byte, request#>>
    sendret,    \* what send returned to the call in progress
    result,     \* what the call returned
    io,         \* the I/O events of the Connection, in order: "w" or "r"
    log,        \* history: how each call that returned ended, in order:
                \* [type: "ok" or the error's variant, clean: nothing of the
                \* call's reply was left unread or unsent]
    \* connect (SpecConnect)
    kpc,        \* "start", "trying", "returned", "aborted"
    kopts,      \* the HelloOpts given to connect
    addrs,      \* Ok(resolved addresses) or Err
    tried,      \* the attempts made, in order: [addr, open, hello]
    kresult     \* what connect returned

codecVars == <<cpc, value, depth, wire, encoded, decoded, source>>
connVars ==
    <<pc, call, nsent, output, owed, input, closed, frames, chunk, sendret, result, io, log>>
connectVars == <<kpc, kopts, addrs, tried, kresult>>
vars == <<codecVars, connVars, connectVars>>

-----------------------------------------------------------------------------
(* Results and errors *)

Ok(v) == [kind |-> "ok", val |-> v]
Err(e) == [kind |-> "err", err |-> e]
Panic(m) == [kind |-> "panic", msg |-> m]
None == [kind |-> "none"]

IsOk(r) == r.kind = "ok"
IsErr(r) == r.kind = "err"
IsPanic(r) == r.kind = "panic"

Resp(m) == [type |-> "Resp", msg |-> m]
Valkey(m) == [type |-> "Valkey", msg |-> m]
Client(m) == [type |-> "Client", msg |-> m]

Min(a, b) == IF a < b THEN a ELSE b

-----------------------------------------------------------------------------
(* Bytes and text *)

CR == "\r"
LF == "\n"
CRLF_BYTES == <<CR, LF>>
RESP_MAX_SIZE == 512 * 1024 * 1024

Digits == <<"0", "1", "2", "3", "4", "5", "6", "7", "8", "9">>
IsDigit(b) == \E i \in 1..10 : Digits[i] = b
DigitVal(b) == (CHOOSE i \in 1..10 : Digits[i] = b) - 1

\* str(text): the bytes of a text of the source, given as its characters
RECURSIVE Concat(_)
Concat(ss) == IF ss = <<>> THEN <<>> ELSE Head(ss) \o Concat(Tail(ss))

\* i64::to_string / usize::to_string
RECURSIVE nat_to_string(_)
nat_to_string(n) ==
    IF n < 10 THEN <<Digits[n + 1]>>
    ELSE nat_to_string(n \div 10) \o <<Digits[(n % 10) + 1]>>

to_string(n) == IF n < 0 THEN <<"-">> \o nat_to_string(-n) ELSE nat_to_string(n)

is_crlf(a, b) == a = CR /\ b = LF

\* String::from_utf8: the model's only byte outside UTF-8 is "xFF"
parse_string(bytes) ==
    IF \E i \in 1..Len(bytes) : bytes[i] = "xFF"
    THEN Err(Resp(<<"invalid utf-8 sequence">>))
    ELSE Ok(bytes)

RECURSIVE DigitsVal(_)
DigitsVal(ds) ==
    IF ds = <<>> THEN 0 ELSE DigitsVal(SubSeq(ds, 1, Len(ds) - 1)) * 10 + DigitVal(ds[Len(ds)])

\* ds, a digit string without leading zeros, is above lim, a digit string
RECURSIVE DigitsAbove(_, _)
DigitsAbove(ds, lim) ==
    IF Len(ds) # Len(lim) THEN Len(ds) > Len(lim)
    ELSE IF ds = <<>> THEN FALSE
    ELSE IF ds[1] # lim[1] THEN DigitVal(ds[1]) > DigitVal(lim[1])
    ELSE DigitsAbove(Tail(ds), Tail(lim))

RECURSIVE StripZeros(_)
StripZeros(ds) == IF Len(ds) > 1 /\ ds[1] = "0" THEN StripZeros(Tail(ds)) ELSE ds

I64MaxDigits ==
    <<"9","2","2","3","3","7","2","0","3","6","8","5","4","7","7","5","8","0","7">>
I64MinDigits ==
    <<"9","2","2","3","3","7","2","0","3","6","8","5","4","7","7","5","8","0","8">>

\* the ? operator: the Ok value goes on to F, anything else is returned as it is
Try(r, F(_)) == IF IsOk(r) THEN F(r.val) ELSE r

\* the ? operator on a read: the value and the position after it go on to F
TryAt(r, F(_, _)) == IF IsOk(r) THEN F(r.val, r.pos) ELSE r

\* parse_digits with the sign dropped
parse_digits_without_sign(neg, ds) ==
    IF ds = <<>> \/ \E i \in 1..Len(ds) : ~IsDigit(ds[i])
    THEN Err(Resp(<<"invalid digit found in string">>))
    ELSE IF DigitsAbove(StripZeros(ds), I64MaxDigits)
    THEN Err(Resp(<<"number too large or too small to fit in target type">>))
    ELSE Ok(DigitsVal(ds))

\* str::parse::<i64>, after the sign: one or more digits, within i64
parse_digits(neg, ds) ==
    IF ds = <<>> \/ \E i \in 1..Len(ds) : ~IsDigit(ds[i])
    THEN Err(Resp(<<"invalid digit found in string">>))
    ELSE IF DigitsAbove(StripZeros(ds), IF neg THEN I64MinDigits ELSE I64MaxDigits)
    THEN Err(Resp(<<"number too large or too small to fit in target type">>))
    ELSE Ok(IF neg THEN -DigitsVal(ds) ELSE DigitsVal(ds))

\* str::parse::<i64>: an optional sign, then one or more digits, within i64
parse_integer(bytes) ==
    Try(parse_string(bytes), LAMBDA str :
        IF str = <<>> THEN Err(Resp(<<"cannot parse integer from empty string">>))
        ELSE parse_digits(str[1] = "-", IF str[1] \in {"-", "+"} THEN Tail(str) ELSE str))

\* str::parse::<f64>, after the sign, on the model's bytes, which hold no
\* '.', 'e', 'i' or 'n': one or more digits.  A Double is <<negative, magnitude>>.
parse_float_digits(neg, ds) ==
    IF ds = <<>> \/ \E i \in 1..Len(ds) : ~IsDigit(ds[i])
    THEN Err(Resp(<<"invalid float literal">>))
    ELSE Ok(<<neg, DigitsVal(ds)>>)

\* str::parse::<f64>
parse_double(bytes) ==
    Try(parse_string(bytes), LAMBDA str :
        IF str = <<>> THEN Err(Resp(<<"cannot parse float from empty string">>))
        ELSE parse_float_digits(str[1] = "-",
                                IF str[1] \in {"-", "+"} THEN Tail(str) ELSE str))

-----------------------------------------------------------------------------
(* Values *)

V(tag, val) == [tag |-> tag, val |-> val]
Null == [tag |-> "Null"]
Aggregates == {"Array", "Map", "Set", "Push"}

RECURSIVE encode(_), encode_items(_), Decoder_decode(_, _), decode_items(_, _, _)

\* decode: the first frame of the buffer; what follows it is not looked at
decode_whole(bytes) ==
    TryAt(Decoder_decode(bytes, 1), LAMBDA v, at :
        IF at - 1 = Len(bytes) THEN Ok(v) ELSE Err(Resp(<<"trailing bytes">>)))

decode(bytes) == TryAt(Decoder_decode(bytes, 1), LAMBDA v, at : Ok(v))

\* expect(msg): a failure aborts
expect(r, msg) == IF IsOk(r) THEN r ELSE Panic(msg)

\* From<NestedValue> for Value: decode(..).expect("nested values must decode cleanly")
Value_from(nested) == expect(decode(nested), "nested values must decode cleanly")

\* From<Value> for NestedValue: encode(..).expect("values must encode cleanly")
NestedValue_from(v) == encode(v)

\* the children of an aggregate, each converted to a Value and encoded in turn
encode_items(items) ==
    IF items = <<>> THEN Ok(<<>>)
    ELSE Try(Value_from(Head(items)), LAMBDA child :
         Try(encode(child), LAMBDA e :
         Try(encode_items(Tail(items)), LAMBDA rest : Ok(e \o rest))))

\* buf_encode, the scalar arms: type byte, payload, CRLF
encode_line(prefix, payload) == <<prefix>> \o payload \o CRLF_BYTES

\* buf_encode, the BulkString, BulkError and VerbatimString arms
encode_bulk(prefix, payload) ==
    <<prefix>> \o to_string(Len(payload)) \o CRLF_BYTES \o payload \o CRLF_BYTES

\* buf_encode, the Array arm: type byte, length, CRLF, children
encode_array(prefix, n, kids) == <<prefix>> \o to_string(n) \o CRLF_BYTES \o kids

\* buf_encode, the Map, Set and Push arms: type byte, length, children
encode_aggregate(prefix, n, kids) == <<prefix>> \o to_string(n) \o kids

FlattenPairs(pairs) == Concat([i \in 1..Len(pairs) |-> <<pairs[i][1], pairs[i][2]>>])

\* the children of v, in the order buf_encode writes them
children(v) == IF v.tag = "Map" THEN FlattenPairs(v.val) ELSE v.val

encode(v) ==
    CASE v.tag = "Null" -> Ok(encode_line("_", <<>>))
      [] v.tag = "String" -> Ok(encode_line("+", v.val))
      [] v.tag = "Error" -> Ok(encode_line("-", v.val))
      [] v.tag = "Integer" -> Ok(encode_line(":", to_string(v.val)))
      [] v.tag = "BulkString" -> Ok(encode_bulk("$", v.val))
      [] v.tag = "Boolean" -> Ok(encode_line("#", IF v.val THEN <<"t">> ELSE <<"f">>))
      [] v.tag = "Double" ->
            Ok(encode_line(",", (IF v.val[1] THEN <<"-">> ELSE <<>>) \o to_string(v.val[2])))
      [] v.tag = "BigNumber" -> Ok(encode_line("(", v.val))
      [] v.tag = "BulkError" -> Ok(encode_bulk("!", v.val))
      [] v.tag = "VerbatimString" -> Ok(encode_bulk("=", v.val[1] \o <<":">> \o v.val[2]))
      [] v.tag \in Aggregates ->
            Try(encode_items(children(v)), LAMBDA kids :
                CASE v.tag = "Array" -> Ok(encode_array("*", Len(v.val), kids))
                  [] v.tag = "Map" -> Ok(encode_aggregate("%", Len(v.val), kids))
                  [] v.tag = "Set" -> Ok(encode_aggregate("~", Len(v.val), kids))
                  [] v.tag = "Push" -> Ok(encode_aggregate(">", Len(v.val), kids)))

\* BufRead::read_until(b'\n'): the bytes from pos up to and including the first LF,
\* or up to the end of the buffer
read_until(buf, pos) ==
    LET lfs == {i \in pos..Len(buf) : buf[i] = LF}
        last == IF lfs = {} THEN Len(buf) ELSE CHOOSE i \in lfs : \A j \in lfs : i <= j
    IN  [data |-> SubSeq(buf, pos, last), pos |-> last + 1]

\* Read::read_exact: exactly n bytes from pos, or an error when fewer are left
read_exact(buf, pos, n) ==
    IF pos + n - 1 <= Len(buf)
    THEN [kind |-> "ok", val |-> SubSeq(buf, pos, pos + n - 1), pos |-> pos + n]
    ELSE Err(Resp(<<"failed to fill whole buffer">>))

OkAt(v, pos) == [kind |-> "ok", val |-> v, pos |-> pos]

\* decode_bulk with the check of the closing CRLF left out
decode_bulk_without_crlf_check(buf, pos, int) ==
    TryAt(read_exact(buf, pos, int + 2), LAMBDA b, at :
        Try(parse_string(SubSeq(b, 1, int)), LAMBDA str : OkAt(str, at)))

\* the length-prefixed payload of a bulk string, bulk error or verbatim string:
\* read int + 2 bytes, require CRLF at the end, truncate to int, parse as UTF-8
decode_bulk(buf, pos, int) ==
    TryAt(read_exact(buf, pos, int + 2), LAMBDA b, at :
        IF ~is_crlf(b[int + 1], b[int + 2]) THEN Err(Resp(<<"invalid CRLF", b>>))
        ELSE Try(parse_string(SubSeq(b, 1, int)), LAMBDA str : OkAt(str, at)))

\* str::splitn(2, ':') of a verbatim string into (encoding, text)
split_verbatim(str) ==
    LET colons == {i \in 1..Len(str) : str[i] = ":"} IN
    IF colons = {} THEN Err(Resp(<<"invalid verbatim string, missing encoding">>))
    ELSE LET c == CHOOSE i \in colons : \A j \in colons : i <= j IN
         Ok(<<SubSeq(str, 1, c - 1), SubSeq(str, c + 1, Len(str))>>)

\* `for _ in 0..int`: n children decoded in order, each kept as a NestedValue
decode_items(buf, pos, n) ==
    IF n <= 0 THEN OkAt(<<>>, pos)
    ELSE TryAt(Decoder_decode(buf, pos), LAMBDA val, at :
         Try(NestedValue_from(val), LAMBDA nested :
         TryAt(decode_items(buf, at, n - 1), LAMBDA rest, end :
             OkAt(<<nested>> \o rest, end))))

\* the Map loop: key and value are both decoded before either is converted
RECURSIVE decode_pairs(_, _, _)
decode_pairs(buf, pos, n) ==
    IF n <= 0 THEN OkAt(<<>>, pos)
    ELSE TryAt(Decoder_decode(buf, pos), LAMBDA key, kat :
         TryAt(Decoder_decode(buf, kat), LAMBDA val, at :
         Try(NestedValue_from(key), LAMBDA k :
         Try(NestedValue_from(val), LAMBDA v :
         TryAt(decode_pairs(buf, at, n - 1), LAMBDA rest, end :
             OkAt(<<(<<k, v>>)>> \o rest, end))))))

\* the length line of a Map, Set or Push (and of a bulk error or verbatim string)
length_ok(int) == ~(int < 0 \/ int >= RESP_MAX_SIZE)

\* length_ok_null with the limit itself let through
length_ok_null_inclusive(int) == ~(int < -1 \/ int > RESP_MAX_SIZE)

\* the length line of a bulk string or an Array, after the -1 case
length_ok_null(int) == ~(int < -1 \/ int >= RESP_MAX_SIZE)

\* Decoder::decode, the match on the type byte: bytes is the header line
\* without its type byte and CRLF, at the position after the line
decode_frame(buf, prefix, bytes, at) ==
    CASE prefix = "+" ->
            Try(parse_string(bytes), LAMBDA str : OkAt(V("String", str), at))
      [] prefix = "-" ->
            Try(parse_string(bytes), LAMBDA str : OkAt(V("Error", str), at))
      [] prefix = ":" ->
            Try(parse_integer(bytes), LAMBDA int : OkAt(V("Integer", int), at))
      [] prefix = "$" ->
            Try(parse_integer(bytes), LAMBDA int :
                IF int = -1 THEN OkAt(Null, at)
                ELSE IF ~length_ok_null(int)
                     THEN Err(Resp(<<"invalid bulk string length", int>>))
                ELSE TryAt(decode_bulk(buf, at, int), LAMBDA b, end :
                         OkAt(V("BulkString", b), end)))
      [] prefix = "*" ->
            Try(parse_integer(bytes), LAMBDA int :
                IF int = -1 THEN OkAt(Null, at)
                ELSE IF ~length_ok_null(int)
                     THEN Err(Resp(<<"invalid array length", int>>))
                ELSE TryAt(decode_items(buf, at, int), LAMBDA array, end :
                         OkAt(V("Array", array), end)))
      [] prefix = "_" -> OkAt(Null, at)
      [] prefix = "#" ->
            IF bytes = <<>> THEN Panic("index out of bounds")
            ELSE IF bytes[1] = "f" THEN OkAt(V("Boolean", FALSE), at)
            ELSE IF bytes[1] = "t" THEN OkAt(V("Boolean", TRUE), at)
            ELSE Err(Resp(<<"invalid RESP boolean", bytes>>))
      [] prefix = "," ->
            Try(parse_double(bytes), LAMBDA d : OkAt(V("Double", d), at))
      [] prefix = "(" ->
            Try(parse_string(bytes), LAMBDA str : OkAt(V("BigNumber", str), at))
      [] prefix = "!" ->
            Try(parse_integer(bytes), LAMBDA int :
                IF ~length_ok(int) THEN Err(Resp(<<"invalid bulk error length", int>>))
                ELSE TryAt(decode_bulk(buf, at, int), LAMBDA b, end :
                         OkAt(V("BulkError", b), end)))
      [] prefix = "=" ->
            Try(parse_integer(bytes), LAMBDA int :
                IF ~length_ok(int)
                THEN Err(Resp(<<"invalid verbatim string length", int>>))
                ELSE TryAt(decode_bulk(buf, at, int), LAMBDA b, end :
                     Try(split_verbatim(b), LAMBDA parts :
                         OkAt(V("VerbatimString", parts), end))))
      [] prefix = "%" ->
            Try(parse_integer(bytes), LAMBDA int :
                IF ~length_ok(int) THEN Err(Resp(<<"invalid array length", int>>))
                ELSE TryAt(decode_pairs(buf, at, int), LAMBDA map, end :
                         OkAt(V("Map", map), end)))
      [] prefix = "~" ->
            Try(parse_integer(bytes), LAMBDA int :
                IF ~length_ok(int) THEN Err(Resp(<<"invalid array length", int>>))
                ELSE TryAt(decode_items(buf, at, int), LAMBDA set, end :
                         OkAt(V("Set", set), end)))
      [] prefix = ">" ->
            Try(parse_integer(bytes), LAMBDA int :
                IF ~length_ok(int) THEN Err(Resp(<<"invalid array length", int>>))
                ELSE TryAt(decode_items(buf, at, int), LAMBDA push, end :
                         OkAt(V("Push", push), end)))
      [] OTHER -> Err(Resp(<<"invalid RESP type", prefix>>))

\* decode_line with a type byte it does not know read as a simple string
decode_line_unknown_as_string(buf, res, at) ==
    IF Len(res) = 0 THEN Err(Resp(<<"unexpected EOF">>))
    ELSE IF Len(res) < 3 THEN Err(Resp(<<"too short", Len(res)>>))
    ELSE IF ~is_crlf(res[Len(res) - 1], res[Len(res)])
         THEN Err(Resp(<<"invalid CRLF", res>>))
    ELSE decode_frame(buf,
                      IF res[1] \in {"+", "-", ":", "$", "*", "_", "#", ",", "(", "!", "=",
                                     "%", "~", ">"}
                      THEN res[1] ELSE "+",
                      SubSeq(res, 2, Len(res) - 2), at)

\* Decoder::decode, the header line: res is what read_until returned
decode_line(buf, res, at) ==
    IF Len(res) = 0 THEN Err(Resp(<<"unexpected EOF">>))
    ELSE IF Len(res) < 3 THEN Err(Resp(<<"too short", Len(res)>>))
    ELSE IF ~is_crlf(res[Len(res) - 1], res[Len(res)])
         THEN Err(Resp(<<"invalid CRLF", res>>))
    ELSE decode_frame(buf, res[1], SubSeq(res, 2, Len(res) - 2), at)

Decoder_decode(buf, pos) ==
    decode_line(buf, read_until(buf, pos).data, read_until(buf, pos).pos)

-----------------------------------------------------------------------------
(* The codec harness: a caller builds a Value (nesting children through    *)
(* From<Value> for NestedValue) or decodes one from a server frame, then   *)
(* encodes it and decodes the bytes again.                                 *)

MaxDepth == 2

\* the frame of an aggregate as the RESP protocol writes it (the server's side)
WireAggregate(prefix, n, kids) == <<prefix>> \o to_string(n) \o CRLF_BYTES \o kids

\* the scalar Values and empty aggregates the harness starts from, each with
\* the frame a server sends for it
Leaves ==
    << [val |-> V("String", <<"O", "K">>), wire |-> <<"+", "O", "K", CR, LF>>],
       [val |-> V("String", <<>>), wire |-> <<"+", CR, LF>>],
       [val |-> V("Error", <<"E">>), wire |-> <<"-", "E", CR, LF>>],
       [val |-> V("Integer", 0), wire |-> <<":", "0", CR, LF>>],
       [val |-> V("Integer", -12), wire |-> <<":", "-", "1", "2", CR, LF>>],
       [val |-> V("BulkString", <<"a", "b">>), wire |-> <<"$", "2", CR, LF, "a", "b", CR, LF>>],
       [val |-> V("BulkString", <<>>), wire |-> <<"$", "0", CR, LF, CR, LF>>],
       [val |-> Null, wire |-> <<"_", CR, LF>>],
       [val |-> V("Boolean", TRUE), wire |-> <<"#", "t", CR, LF>>],
       [val |-> V("Boolean", FALSE), wire |-> <<"#", "f", CR, LF>>],
       [val |-> V("Double", <<FALSE, 3>>), wire |-> <<",", "3", CR, LF>>],
       [val |-> V("BigNumber", <<"1", "2">>), wire |-> <<"(", "1", "2", CR, LF>>],
       [val |-> V("BulkError", <<"E">>), wire |-> <<"!", "1", CR, LF, "E", CR, LF>>],
       [val |-> V("VerbatimString", <<(<<"t", "x", "t">>), (<<"a">>)>>),
        wire |-> <<"=", "5", CR, LF, "t", "x", "t", ":", "a", CR, LF>>],
       [val |-> V("Array", <<>>), wire |-> <<"*", "0", CR, LF>>],
       [val |-> V("Map", <<>>), wire |-> <<"%", "0", CR, LF>>],
       [val |-> V("Set", <<>>), wire |-> <<"~", "0", CR, LF>>],
       [val |-> V("Push", <<>>), wire |-> <<">", "0", CR, LF>>] >>

\* the sibling put beside the nested value
Sibling == Leaves[6]

TypeByte(tag) ==
    CASE tag = "Array" -> "*" [] tag = "Map" -> "%" [] tag = "Set" -> "~" [] tag = "Push" -> ">"

CodecIdle ==
    /\ cpc = "built" /\ depth = 0 /\ source = "value"
    /\ encoded = None /\ decoded = None

CodecInit ==
    /\ \E i \in 1..Len(Leaves) : value = Ok(Leaves[i].val) /\ wire = Leaves[i].wire
    /\ CodecIdle

\* the aggregate a caller builds around the nested value me: alone, or with
\* the nested sibling sib
nest(tag, alone, me, sib) ==
    Try(me, LAMBDA m :
        IF tag = "Map" THEN Ok(V("Map", <<(<<sib.val, m>>)>>))
        ELSE IF alone THEN Ok(V(tag, <<m>>))
        ELSE Ok(V(tag, <<m, sib.val>>)))

\* the caller wraps the value in an aggregate: alone, or with a sibling
Nest(tag, alone) ==
    /\ cpc = "built" /\ source = "value" /\ IsOk(value) /\ depth < MaxDepth
    /\ value' = nest(tag, alone, NestedValue_from(value.val), NestedValue_from(Sibling.val))
    /\ wire' =
          IF tag = "Map" THEN WireAggregate("%", 1, Sibling.wire \o wire)
          ELSE IF alone THEN WireAggregate(TypeByte(tag), 1, wire)
          ELSE WireAggregate(TypeByte(tag), 2, wire \o Sibling.wire)
    /\ depth' = depth + 1
    /\ UNCHANGED <<cpc, encoded, decoded, source, connVars, connectVars>>

\* the value under test becomes the one decode returns for the server's frame
DecodeWire ==
    /\ cpc = "built" /\ source = "value"
    /\ value' = decode(wire)
    /\ source' = "wire"
    /\ UNCHANGED <<cpc, depth, wire, encoded, decoded, connVars, connectVars>>

Encode ==
    /\ cpc = "built" /\ IsOk(value)
    /\ encoded' = encode(value.val)
    /\ cpc' = "encoded"
    /\ UNCHANGED <<value, depth, wire, decoded, source, connVars, connectVars>>

Decode ==
    /\ cpc = "encoded" /\ IsOk(encoded)
    /\ decoded' = decode(encoded.val)
    /\ cpc' = "decoded"
    /\ UNCHANGED <<value, depth, wire, encoded, source, connVars, connectVars>>

-----------------------------------------------------------------------------
(* The decoder on raw input: a caller hands decode a byte buffer.  The      *)
(* buffer is a frame, a frame nested in aggregates, or one of these cut     *)
(* short, with a bare CR or LF where a CRLF was, or with another first byte.*)

MaxWrap == 1

TypeBytes == {"+", "-", ":", "$", "*", "_", "#", ",", "(", "!", "=", "%", "~", ">"}

\* the header line of a length-prefixed frame
LengthHeader(prefix, n) == <<prefix>> \o to_string(n) \o CRLF_BYTES

\* an Array of a simple string and a bulk string whose payload is itself a frame
FramedPayload ==
    <<"*", "2", CR, LF, "+", "x", CR, LF,
      "$", "4", CR, LF, "+", "a", CR, LF, CR, LF>>

\* an Array whose only child is an empty Set
NestedSet == <<"*", "1", CR, LF, "~", "0", CR, LF>>

\* a length-prefixed frame that announces n bytes and carries payload
Announce(prefix, n, payload) == LengthHeader(prefix, n) \o payload \o CRLF_BYTES

\* the payload of the frames that announce its length, or one more or less
Payload == <<"t", ":", "a">>

\* frames as the RESP protocol writes them
ValidFrames ==
    {Leaves[i].wire : i \in 1..Len(Leaves)}
    \cup {LengthHeader("$", -1), LengthHeader("*", -1), FramedPayload, NestedSet}
    \cup {Announce(p, Len(Payload), Payload) : p \in {"$", "!", "="}}

\* the lengths around the bounds of the length checks
EdgeLengths == {-2, -1, 0, RESP_MAX_SIZE - 1, RESP_MAX_SIZE, RESP_MAX_SIZE + 1}

\* buffers that are not frames of the protocol
OddFrames ==
    {LengthHeader(p, n) : p \in {"$", "!", "="}, n \in EdgeLengths \ {-1}}
    \cup {LengthHeader(p, -1) : p \in {"!", "=", "%", "~", ">"}}
    \cup {Announce(p, n, Payload) : p \in {"$", "!", "="},
                                    n \in {Len(Payload) - 1, Len(Payload) + 1}}
    \cup {<<"#", CR, LF>>, <<"#", "t", "x", CR, LF>>, <<"#", "f", "t", CR, LF>>,
          <<"#", "x", CR, LF>>, <<"_", "x", CR, LF>>,
          <<"$", "9", "2", "2", "3", "3", "7", "2", "0", "3", "6", "8", "5", "4", "7", "7",
            "5", "8", "0", "8", CR, LF>>,
          <<"$", "1", CR, LF, "a", "b", CR, LF>>,
          <<"=", "1", CR, LF, "a", CR, LF>>,
          <<"+", "xFF", CR, LF>>, <<":", "x", CR, LF>>, <<",", "x", CR, LF>>,
          <<>>}

\* the first bytes that are no type byte
UnknownBytes == {"x", "@", "0", CR, LF, "xFF"}

DecodeInit ==
    /\ cpc = "input" /\ depth = 0
    /\ \/ wire \in ValidFrames /\ source = "frame"
       \/ wire \in OddFrames /\ source = "odd"
    /\ value = None /\ encoded = None /\ decoded = None

\* the buffer becomes the child of an aggregate: alone, or with a sibling
Wrap(tag, alone) ==
    /\ cpc = "input" /\ source \in {"frame", "odd"} /\ depth < MaxWrap
    /\ wire' =
          IF tag = "Map" THEN WireAggregate("%", 1, Sibling.wire \o wire)
          ELSE IF alone THEN WireAggregate(TypeByte(tag), 1, wire)
          ELSE WireAggregate(TypeByte(tag), 2, wire \o Sibling.wire)
    /\ depth' = depth + 1
    /\ UNCHANGED <<cpc, value, encoded, decoded, source, connVars, connectVars>>

\* the buffer ends after its first n bytes
Truncate(n) ==
    /\ cpc = "input" /\ source \in {"frame", "odd"}
    /\ n \in 0..(Len(wire) - 1)
    /\ wire' = SubSeq(wire, 1, n)
    /\ source' = IF source = "frame" THEN "truncated" ELSE "cut"
    /\ UNCHANGED <<cpc, value, depth, encoded, decoded, connVars, connectVars>>

\* the CRLF at bytes i, i + 1 of a frame becomes a bare CR or a bare LF
BareEnd(i, keep) ==
    /\ cpc = "input" /\ source = "frame"
    /\ i \in 1..(Len(wire) - 1)
    /\ is_crlf(wire[i], wire[i + 1])
    /\ wire' = SubSeq(wire, 1, i - 1) \o <<keep>> \o SubSeq(wire, i + 2, Len(wire))
    /\ source' = "bare"
    /\ UNCHANGED <<cpc, value, depth, encoded, decoded, connVars, connectVars>>

\* the first byte of the buffer becomes b, which is no type byte
Reprefix(b) ==
    /\ cpc = "input" /\ source \in {"frame", "odd"}
    /\ wire # <<>>
    /\ wire' = <<b>> \o Tail(wire)
    /\ source' = "prefix"
    /\ UNCHANGED <<cpc, value, depth, encoded, decoded, connVars, connectVars>>

\* decode(buffer)
DecodeInput ==
    /\ cpc = "input"
    /\ decoded' = decode(wire)
    /\ cpc' = "decoded"
    /\ UNCHANGED <<value, depth, wire, encoded, source, connVars, connectVars>>

\* encode(value) of the Value that decode returned
Reencode ==
    /\ cpc = "decoded" /\ IsOk(decoded)
    /\ encoded' = encode(decoded.val)
    /\ cpc' = "reencoded"
    /\ UNCHANGED <<value, depth, wire, decoded, source, connVars, connectVars>>

-----------------------------------------------------------------------------
(* The typed commands of the Connection.  X_command is the command array   *)
(* the method hands to send; X(response) is its match on the Value that    *)
(* send returned.                                                          *)

Unit == "unit"
Some(x) == [some |-> TRUE, val |-> x]
NoneV == [some |-> FALSE]
Bulk(s) == V("BulkString", s)

\* `value as u64`: a negative i64 wraps to 2^64 + value
as_u64(v) == IF v >= 0 THEN v ELSE [two_pow_64_plus |-> v]

\* `for item in items.chunks(2)` with both halves required to be bulk strings
\* (hgetall; hrandfield and hscan with values): item[1] of a last, short chunk
\* is an index out of bounds
RECURSIVE chunks_bulk_pairs(_, _)
chunks_bulk_pairs(items, some_value) ==
    IF items = <<>> THEN Ok(<<>>)
    ELSE Try(Value_from(items[1]), LAMBDA k :
         IF k.tag # "BulkString" THEN Err(Client(<<"Unexpected key type", k>>))
         ELSE IF Len(items) < 2 THEN Panic("index out of bounds")
         ELSE Try(Value_from(items[2]), LAMBDA v :
              IF v.tag # "BulkString" THEN Err(Client(<<"Unexpected value type", v>>))
              ELSE Try(chunks_bulk_pairs(SubSeq(items, 3, Len(items)), some_value),
                       LAMBDA rest :
                           Ok(<<(<<k.val, IF some_value THEN Some(v.val) ELSE v.val>>)>>
                              \o rest))))

\* `for (key, value) in items` of a Map with both halves required to be bulk strings
RECURSIVE map_bulk_pairs(_)
map_bulk_pairs(items) ==
    IF items = <<>> THEN Ok(<<>>)
    ELSE Try(Value_from(items[1][1]), LAMBDA k :
         IF k.tag # "BulkString" THEN Err(Client(<<"Unexpected key type", k>>))
         ELSE Try(Value_from(items[1][2]), LAMBDA v :
              IF v.tag # "BulkString" THEN Err(Client(<<"Unexpected value type", v>>))
              ELSE Try(map_bulk_pairs(Tail(items)), LAMBDA rest :
                       Ok(<<(<<k.val, v.val>>)>> \o rest))))

\* `for value in values` with every item required to be a bulk string; `what`
\* is the text of the error ("array item": hkeys, keys; "field": hvals, hscan;
\* "key": hrandfield); with_none pairs each item with None
RECURSIVE bulk_items(_, _, _)
bulk_items(items, what, with_none) ==
    IF items = <<>> THEN Ok(<<>>)
    ELSE Try(Value_from(items[1]), LAMBDA v :
         IF v.tag # "BulkString" THEN Err(Client(<<what, v>>))
         ELSE Try(bulk_items(Tail(items), what, with_none), LAMBDA rest :
                  Ok(<<IF with_none THEN <<v.val, NoneV>> ELSE v.val>> \o rest)))


\* hmget's loop: a bulk string is Some, Null is None
RECURSIVE optional_bulk_items(_)
optional_bulk_items(items) ==
    IF items = <<>> THEN Ok(<<>>)
    ELSE Try(Value_from(items[1]), LAMBDA v :
         IF v.tag \notin {"BulkString", "Null"}
         THEN Err(Client(<<"Unexpected array item type", v>>))
         ELSE Try(optional_bulk_items(Tail(items)), LAMBDA rest :
                  Ok(<<IF v.tag = "Null" THEN NoneV ELSE Some(v.val)>> \o rest)))

acl_deluser(response) ==
    CASE response.tag = "Integer" /\ response.val = 1 -> Ok(Unit)
      [] response.tag = "Integer" /\ response.val # 1 -> Err(Client(<<"Unexpected response", response.val, "users deleted">>))
      [] response.tag = "Error" -> Err(Valkey(response.val))
      [] OTHER -> Err(Client(<<"Unexpected response type", response>>))

acl_genpass(response) ==
    CASE response.tag = "BulkString" -> Ok(response.val)
      [] response.tag = "Error" -> Err(Valkey(response.val))
      [] OTHER -> Err(Client(<<"Unexpected response type", response>>))

acl_setuser_command(username, rules) ==
    <<Bulk(<<"A", "C", "L">>), Bulk(<<"S", "E", "T", "U", "S", "E", "R">>), Bulk(username)>> \o [i \in 1..Len(rules) |-> Bulk(rules[i])]

acl_setuser(response) ==
    CASE response.tag = "String" /\ response.val = <<"O", "K">> -> Ok(Unit)
      [] response.tag = "String" /\ response.val # <<"O", "K">> -> Err(Client(<<"Not OK", response.val>>))
      [] response.tag = "Error" -> Err(Valkey(response.val))
      [] OTHER -> Err(Client(<<"Unexpected response type", response>>))

auth(response) ==
    CASE response.tag = "String" /\ response.val = <<"O", "K">> -> Ok(Unit)
      [] response.tag = "String" /\ response.val # <<"O", "K">> -> Err(Client(<<"Not OK", response.val>>))
      [] response.tag = "Error" -> Err(Valkey(response.val))
      [] OTHER -> Err(Client(<<"Unexpected response type", response>>))

del(response) ==
    CASE response.tag = "Integer" /\ response.val = 1 -> Ok(Unit)
      [] response.tag = "Integer" /\ response.val # 1 -> Err(Client(<<"Unexpected response", response.val, "keys deleted">>))
      [] response.tag = "Error" -> Err(Valkey(response.val))
      [] OTHER -> Err(Client(<<"Unexpected response type", response>>))

exists(response) ==
    CASE response.tag = "Integer" /\ response.val = 0 -> Ok(FALSE)
      [] response.tag = "Integer" /\ response.val = 1 -> Ok(TRUE)
      [] response.tag = "Error" -> Err(Valkey(response.val))
      [] OTHER -> Err(Client(<<"Unexpected response type", response>>))

\* get with the Error arm left out: an Error reply falls to the catch-all arm
get_without_error_arm(response) ==
    CASE response.tag = "BulkString" -> Ok(Some(response.val))
      [] response.tag = "Null" -> Ok(NoneV)
      [] OTHER -> Err(Client(<<"Unexpected response type", response>>))

get(response) ==
    CASE response.tag = "BulkString" -> Ok(Some(response.val))
      [] response.tag = "Null" -> Ok(NoneV)
      [] response.tag = "Error" -> Err(Valkey(response.val))
      [] OTHER -> Err(Client(<<"Unexpected response type", response>>))

hdel(response) ==
    CASE response.tag = "Integer" /\ response.val = 1 -> Ok(Unit)
      [] response.tag = "Integer" /\ response.val # 1 -> Err(Client(<<"Unexpected response", response.val, "keys deleted">>))
      [] response.tag = "Error" -> Err(Valkey(response.val))
      [] OTHER -> Err(Client(<<"Unexpected response type", response>>))

hexists(response) ==
    CASE response.tag = "Integer" /\ response.val = 0 -> Ok(FALSE)
      [] response.tag = "Integer" /\ response.val = 1 -> Ok(TRUE)
      [] response.tag = "Error" -> Err(Valkey(response.val))
      [] OTHER -> Err(Client(<<"Unexpected response type", response>>))

hget(response) ==
    CASE response.tag = "BulkString" -> Ok(Some(response.val))
      [] response.tag = "Null" -> Ok(NoneV)
      [] response.tag = "Error" -> Err(Valkey(response.val))
      [] OTHER -> Err(Client(<<"Unexpected response type", response>>))

\* hgetall with the Map arm left out: a RESP3 reply falls to the catch-all arm
hgetall_resp2_only(response) ==
    CASE response.tag = "Array" -> chunks_bulk_pairs(response.val, FALSE)
      [] response.tag = "Error" -> Err(Valkey(response.val))
      [] OTHER -> Err(Client(<<"Unexpected response type", response>>))

hgetall(response) ==
    CASE response.tag = "Array" -> chunks_bulk_pairs(response.val, FALSE)
      [] response.tag = "Map" -> map_bulk_pairs(response.val)
      [] response.tag = "Error" -> Err(Valkey(response.val))
      [] OTHER -> Err(Client(<<"Unexpected response type", response>>))

hincrby_command(key, field, increment) ==
    <<Bulk(<<"H", "I", "N", "C", "R", "B", "Y">>), Bulk(key), Bulk(field), Bulk(to_string(increment))>>

hincrby(response) ==
    CASE response.tag = "Integer" -> Ok(response.val)
      [] response.tag = "Error" -> Err(Valkey(response.val))
      [] OTHER -> Err(Client(<<"Unexpected response type", response>>))

hincrbyfloat_command(key, field, increment) ==
    <<Bulk(<<"H", "I", "N", "C", "R", "B", "Y", "F", "L", "O", "A", "T">>), Bulk(key), Bulk(field), Bulk(to_string(increment))>>

hincrbyfloat(response) ==
    CASE response.tag = "BulkString" -> Ok(response.val)
      [] response.tag = "Error" -> Err(Valkey(response.val))
      [] OTHER -> Err(Client(<<"Unexpected response type", response>>))

hkeys(response) ==
    CASE response.tag = "Array" -> bulk_items(response.val, "Unexpected array item type", FALSE)
      [] response.tag = "Error" -> Err(Valkey(response.val))
      [] OTHER -> Err(Client(<<"Unexpected response type", response>>))

hlen(response) ==
    CASE response.tag = "Integer" -> Ok(as_u64(response.val))
      [] response.tag = "Error" -> Err(Valkey(response.val))
      [] OTHER -> Err(Client(<<"Unexpected response type", response>>))

hmget_command(key, fields) ==
    <<Bulk(<<"H", "M", "G", "E", "T">>), Bulk(key)>> \o [i \in 1..Len(fields) |-> Bulk(fields[i])]

hmget(response) ==
    CASE response.tag = "Array" -> optional_bulk_items(response.val)
      [] response.tag = "Error" -> Err(Valkey(response.val))
      [] OTHER -> Err(Client(<<"Unexpected response type", response>>))

hmset_command(key, fields) ==
    <<Bulk(<<"H", "M", "S", "E", "T">>), Bulk(key)>> \o FlattenPairs([i \in 1..Len(fields) |-> <<Bulk(fields[i][1]), Bulk(fields[i][2])>>])

hmset(response) ==
    CASE response.tag = "String" /\ response.val = <<"O", "K">> -> Ok(Unit)
      [] response.tag = "String" /\ response.val # <<"O", "K">> -> Err(Client(<<"Not OK", response.val>>))
      [] response.tag = "Error" -> Err(Valkey(response.val))
      [] OTHER -> Err(Client(<<"Unexpected response type", response>>))

\* hset with the Integer(1) arm widened to every count
hset_any_count(response) ==
    CASE response.tag = "Integer" -> Ok(Unit)
      [] response.tag = "Error" -> Err(Valkey(response.val))
      [] OTHER -> Err(Client(<<"Unexpected response type", response>>))

hset(response) ==
    CASE response.tag = "Integer" /\ response.val = 1 -> Ok(Unit)
      [] response.tag = "Integer" /\ response.val # 1 -> Err(Client(<<"Unexpected response", response.val, "fields set">>))
      [] response.tag = "Error" -> Err(Valkey(response.val))
      [] OTHER -> Err(Client(<<"Unexpected response type", response>>))

hsetnx(response) ==
    CASE response.tag = "Integer" /\ response.val = 0 -> Ok(FALSE)
      [] response.tag = "Integer" /\ response.val = 1 -> Ok(TRUE)
      [] response.tag = "Error" -> Err(Valkey(response.val))
      [] OTHER -> Err(Client(<<"Unexpected response type", response>>))

hstrlen(response) ==
    CASE response.tag = "Integer" -> Ok(as_u64(response.val))
      [] response.tag = "Error" -> Err(Valkey(response.val))
      [] OTHER -> Err(Client(<<"Unexpected response type", response>>))

hvals(response) ==
    CASE response.tag = "Array" -> bulk_items(response.val, "Unexpected field type", FALSE)
      [] response.tag = "Error" -> Err(Valkey(response.val))
      [] OTHER -> Err(Client(<<"Unexpected response type", response>>))

incr(response) ==
    CASE response.tag = "Integer" -> Ok(response.val)
      [] response.tag = "Error" -> Err(Valkey(response.val))
      [] OTHER -> Err(Client(<<"Unexpected response type", response>>))

incrby_command(key, increment) == <<Bulk(<<"I", "N", "C", "R", "B", "Y">>), Bulk(key), Bulk(to_string(increment))>>

incrby(response) ==
    CASE response.tag = "Integer" -> Ok(response.val)
      [] response.tag = "Error" -> Err(Valkey(response.val))
      [] OTHER -> Err(Client(<<"Unexpected response type", response>>))

keys(response) ==
    CASE response.tag = "Array" -> bulk_items(response.val, "Unexpected array item type", FALSE)
      [] response.tag = "Error" -> Err(Valkey(response.val))
      [] OTHER -> Err(Client(<<"Unexpected response type", response>>))

ping(response) ==
    CASE response.tag = "String" /\ response.val = <<"P", "O", "N", "G">> -> Ok(Unit)
      [] response.tag = "String" /\ response.val # <<"P", "O", "N", "G">> -> Err(Client(<<"Not PONG", response.val>>))
      [] response.tag = "Error" -> Err(Valkey(response.val))
      [] OTHER -> Err(Client(<<"Unexpected response type", response>>))

quit(response) ==
    CASE response.tag = "String" /\ response.val = <<"O", "K">> -> Ok(Unit)
      [] response.tag = "String" /\ response.val # <<"O", "K">> -> Err(Client(<<"Not OK", response.val>>))
      [] response.tag = "Error" -> Err(Valkey(response.val))
      [] OTHER -> Err(Client(<<"Unexpected response type", response>>))

publish(response) ==
    CASE response.tag = "Integer" -> Ok(response.val)
      [] response.tag = "Error" -> Err(Valkey(response.val))
      [] OTHER -> Err(Client(<<"Unexpected response type", response>>))

\* set with the Null arm left out: a Null reply falls to the catch-all arm
set_without_null_arm(response) ==
    CASE response.tag = "String" /\ response.val = <<"O", "K">> -> Ok(Unit)
      [] response.tag = "String" /\ response.val # <<"O", "K">> -> Err(Client(<<"Not OK", response.val>>))
      [] response.tag = "Error" -> Err(Valkey(response.val))
      [] OTHER -> Err(Client(<<"Unexpected response type", response>>))

set(response) ==
    CASE response.tag = "String" /\ response.val = <<"O", "K">> -> Ok(Unit)
      [] response.tag = "String" /\ response.val # <<"O", "K">> -> Err(Client(<<"Not OK", response.val>>))
      [] response.tag = "Null" -> Err(Client(<<"Operation aborted">>))
      [] response.tag = "Error" -> Err(Valkey(response.val))
      [] OTHER -> Err(Client(<<"Unexpected response type", response>>))

\* hello with Some(opts) and the proto-ver checks left out
hello_opts_unchecked(o, has_proto) ==
    Ok(<<Bulk(<<"H", "E", "L", "L", "O">>)>>
       \o (IF o.proto_ver.some THEN <<Bulk(o.proto_ver.val)>> ELSE <<>>)
       \o (IF o.auth.some
           THEN <<Bulk(<<"A", "U", "T", "H">>), Bulk(o.auth.val[1]), Bulk(o.auth.val[2])>>
           ELSE <<>>)
       \o (IF o.client_name.some
           THEN <<Bulk(<<"S", "E", "T", "N", "A", "M", "E">>), Bulk(o.client_name.val)>>
           ELSE <<>>))

\* hello with Some(opts): has_proto is opts.proto_ver.is_none(), as the source
\* names it; the pushes happen in the order HELLO, proto_ver, AUTH, SETNAME
hello_opts(o, has_proto) ==
    IF o.auth.some /\ has_proto
    THEN Err(Client(<<"proto-ver must be specified to use auth">>))
    ELSE IF o.client_name.some /\ has_proto
    THEN Err(Client(<<"proto-ver must be specified to use client-name">>))
    ELSE Ok(<<Bulk(<<"H", "E", "L", "L", "O">>)>>
            \o (IF o.proto_ver.some THEN <<Bulk(o.proto_ver.val)>> ELSE <<>>)
            \o (IF o.auth.some
                THEN <<Bulk(<<"A", "U", "T", "H">>), Bulk(o.auth.val[1]), Bulk(o.auth.val[2])>>
                ELSE <<>>)
            \o (IF o.client_name.some
                THEN <<Bulk(<<"S", "E", "T", "N", "A", "M", "E">>), Bulk(o.client_name.val)>>
                ELSE <<>>))

\* hello: the command array, or the Client error of an option that needs proto-ver
hello_command(opts) ==
    IF ~opts.some THEN Ok(<<Bulk(<<"H", "E", "L", "L", "O">>)>>)
    ELSE hello_opts(opts.val, ~opts.val.proto_ver.some)

\* hello's RESP2 loop: both halves of a chunk are converted before the key is matched
RECURSIVE hello_chunks(_)
hello_chunks(items) ==
    IF items = <<>> THEN Ok(<<>>)
    ELSE Try(Value_from(items[1]), LAMBDA k :
         IF Len(items) < 2 THEN Panic("index out of bounds")
         ELSE Try(Value_from(items[2]), LAMBDA v :
              IF k.tag # "BulkString" THEN Err(Client(<<"Unexpected key type", k>>))
              ELSE Try(hello_chunks(SubSeq(items, 3, Len(items))), LAMBDA rest :
                       Ok(<<(<<k.val, v>>)>> \o rest))))

\* hello's RESP3 loop
RECURSIVE hello_pairs(_)
hello_pairs(items) ==
    IF items = <<>> THEN Ok(<<>>)
    ELSE Try(Value_from(items[1][1]), LAMBDA k :
         IF k.tag # "BulkString" THEN Err(Client(<<"Unexpected key type", k>>))
         ELSE Try(Value_from(items[1][2]), LAMBDA v :
              Try(hello_pairs(Tail(items)), LAMBDA rest :
                  Ok(<<(<<k.val, v>>)>> \o rest))))

hello(response) ==
    CASE response.tag = "Array" -> hello_chunks(response.val)
      [] response.tag = "Map" -> hello_pairs(response.val)
      [] response.tag = "Error" -> Err(Valkey(response.val))
      [] OTHER -> Err(Client(<<"Unexpected response type", response>>))

\* with_values_set with the flag's value not looked at
with_values_given(opts) == opts.some /\ opts.val.with_values.some

with_values_set(opts) ==
    opts.some /\ opts.val.with_values.some /\ opts.val.with_values.val

hrandfield_command(key, opts) ==
    IF with_values_set(opts) /\ ~opts.val.count.some
    THEN Err(Client(<<"count must be specified to use with-values">>))
    ELSE Ok(<<Bulk(<<"H", "R", "A", "N", "D", "F", "I", "E", "L", "D">>), Bulk(key)>>
            \o (IF opts.some /\ opts.val.count.some
                THEN <<Bulk(to_string(opts.val.count.val))>> ELSE <<>>)
            \o (IF with_values_set(opts)
                THEN <<Bulk(<<"W", "I", "T", "H", "V", "A", "L", "U", "E", "S">>)>>
                ELSE <<>>))

hrandfield(opts, response) ==
    CASE response.tag = "BulkString" -> Ok(Some(<<(<<response.val, NoneV>>)>>))
      [] response.tag = "Array" ->
            IF Len(response.val) = 0 THEN Ok(NoneV)
            ELSE Try(IF with_values_set(opts)
                     THEN chunks_bulk_pairs(response.val, TRUE)
                     ELSE bulk_items(response.val, "Unexpected key type", TRUE),
                     LAMBDA foo : Ok(Some(foo)))
      [] response.tag = "Null" -> Ok(NoneV)
      [] response.tag = "Error" -> Err(Valkey(response.val))
      [] OTHER -> Err(Client(<<"Unexpected response type", response>>))

\* no_values_set with the flag's value not looked at
no_values_given(opts) == opts.some /\ opts.val.no_values.some

no_values_set(opts) ==
    opts.some /\ opts.val.no_values.some /\ opts.val.no_values.val

hscan_command(key, cursor, opts) ==
    <<Bulk(<<"H", "S", "C", "A", "N">>), Bulk(key), Bulk(IF cursor.some THEN cursor.val ELSE <<"0">>)>>
    \o (IF opts.some /\ opts.val.match_.some
        THEN <<Bulk(<<"M", "A", "T", "C", "H">>), Bulk(opts.val.match_.val)>> ELSE <<>>)
    \o (IF opts.some /\ opts.val.count.some
        THEN <<Bulk(<<"C", "O", "U", "N", "T">>), Bulk(to_string(opts.val.count.val))>> ELSE <<>>)
    \o (IF no_values_set(opts) THEN <<Bulk(<<"N", "O", "V", "A", "L", "U", "E", "S">>)>> ELSE <<>>)

\* hscan's Array arm: items[0] and items[1] are indexed without a length check
hscan_items(opts, items) ==
    IF Len(items) < 1 THEN Panic("index out of bounds")
    ELSE Try(Value_from(items[1]), LAMBDA cursor :
    IF cursor.tag # "BulkString" THEN Err(Client(<<"Unexpected cursor type", cursor>>))
    ELSE IF Len(items) < 2 THEN Panic("index out of bounds")
    ELSE Try(Value_from(items[2]), LAMBDA elements :
    IF elements.tag # "Array" THEN Err(Client(<<"Unexpected elements type", elements>>))
    ELSE Try(IF no_values_set(opts)
             THEN bulk_items(elements.val, "Unexpected field type", TRUE)
             ELSE chunks_bulk_pairs(elements.val, TRUE),
             LAMBDA fields :
                 Ok(<<IF cursor.val = <<"0">> THEN NoneV ELSE Some(cursor.val), fields>>))))

hscan(opts, response) ==
    CASE response.tag = "Array" -> hscan_items(opts, response.val)
      [] response.tag = "Error" -> Err(Valkey(response.val))
      [] OTHER -> Err(Client(<<"Unexpected response type", response>>))

-----------------------------------------------------------------------------
(* The Connection: send, and a typed command as request, send, match.      *)
(* The caller is inside send between the write of the request and the      *)
(* blocking read; the server and the network act in between.               *)

MaxSends == 2
ReadLen == 1024

\* From<StreamError> for Error, with the Resp variant in place of Client
StreamError_as_resp(status) ==
    IF status = "closed" THEN Resp(<<"Stream Closed">>)
    ELSE Resp(<<"Stream LastOperationFailed", status>>)

\* From<StreamError> for Error
StreamError(status) ==
    IF status = "closed" THEN Client(<<"Stream Closed">>)
    ELSE Client(<<"Stream LastOperationFailed", status>>)

\* send, up to the write: the command as an Array of NestedValues, encoded
send_request(command) ==
    encode(V("Array", [i \in 1..Len(command) |-> NestedValue_from(command[i]).val]))

\* send, after the read: one decode of the chunk that the one read returned
send_response(bytes) == decode(bytes)

\* the arguments the caller passes
Key == <<"k">>
Field == <<"f">>
Val == <<"v">>
User == <<"u">>
Pass == <<"p">>

PlainCmds ==
    {"acl_deluser", "acl_genpass", "acl_setuser", "auth", "del", "exists", "get", "hdel",
     "hexists", "hget", "hgetall", "hincrby", "hincrbyfloat", "hkeys", "hlen", "hmget",
     "hmset", "hset", "hsetnx", "hstrlen", "hvals", "incr", "incrby", "keys", "ping",
     "quit", "publish", "set"}

Opt(S) == {NoneV} \cup {Some(x) : x \in S}

HelloOptsSet ==
    Opt([proto_ver : Opt({<<"3">>}), auth : Opt({<<User, Pass>>}), client_name : Opt({<<"c">>})])

HrandfieldOptsSet == Opt([count : Opt({2}), with_values : Opt(BOOLEAN)])

HscanOptsSet ==
    {NoneV,
     Some([match_ |-> Some(<<"*">>), count |-> Some(5), no_values |-> Some(TRUE)]),
     Some([match_ |-> NoneV, count |-> NoneV, no_values |-> Some(FALSE)]),
     Some([match_ |-> Some(<<"*">>), count |-> NoneV, no_values |-> NoneV]),
     Some([match_ |-> NoneV, count |-> Some(5), no_values |-> Some(TRUE)])}

Call(cmd, opts, cursor) == [cmd |-> cmd, opts |-> opts, cursor |-> cursor]

TypedCalls ==
    {Call(c, NoneV, NoneV) : c \in PlainCmds}
    \cup {Call("hello", o, NoneV) : o \in HelloOptsSet}
    \cup {Call("hrandfield", o, NoneV) : o \in HrandfieldOptsSet}
    \cup {Call("hscan", o, c) : o \in HscanOptsSet, c \in Opt({<<"7">>})}

\* the raw command a caller hands to send
RawCall == Call("send", NoneV, NoneV)

\* the command array of a call, or the error its options give before any I/O
Request(c) ==
    CASE c.cmd = "send" -> Ok(<<Bulk(<<"P", "I", "N", "G">>)>>)
      [] c.cmd = "acl_deluser" -> Ok(<<Bulk(<<"A", "C", "L">>), Bulk(<<"D", "E", "L", "U", "S", "E", "R">>), Bulk(User)>>)
      [] c.cmd = "acl_genpass" -> Ok(<<Bulk(<<"A", "C", "L">>), Bulk(<<"G", "E", "N", "P", "A", "S", "S">>)>>)
      [] c.cmd = "acl_setuser" -> Ok(acl_setuser_command(User, <<(<<"o", "n">>)>>))
      [] c.cmd = "auth" -> Ok(<<Bulk(<<"A", "U", "T", "H">>), Bulk(User), Bulk(Pass)>>)
      [] c.cmd = "del" -> Ok(<<Bulk(<<"D", "E", "L">>), Bulk(Key)>>)
      [] c.cmd = "exists" -> Ok(<<Bulk(<<"E", "X", "I", "S", "T", "S">>), Bulk(Key)>>)
      [] c.cmd = "get" -> Ok(<<Bulk(<<"G", "E", "T">>), Bulk(Key)>>)
      [] c.cmd = "hdel" -> Ok(<<Bulk(<<"H", "D", "E", "L">>), Bulk(Key), Bulk(Field)>>)
      [] c.cmd = "hello" -> hello_command(c.opts)
      [] c.cmd = "hexists" -> Ok(<<Bulk(<<"H", "E", "X", "I", "S", "T", "S">>), Bulk(Key), Bulk(Field)>>)
      [] c.cmd = "hget" -> Ok(<<Bulk(<<"H", "G", "E", "T">>), Bulk(Key), Bulk(Field)>>)
      [] c.cmd = "hgetall" -> Ok(<<Bulk(<<"H", "G", "E", "T", "A", "L", "L">>), Bulk(Key)>>)
      [] c.cmd = "hincrby" -> Ok(hincrby_command(Key, Field, 2))
      [] c.cmd = "hincrbyfloat" -> Ok(hincrbyfloat_command(Key, Field, 2))
      [] c.cmd = "hkeys" -> Ok(<<Bulk(<<"H", "K", "E", "Y", "S">>), Bulk(Key)>>)
      [] c.cmd = "hlen" -> Ok(<<Bulk(<<"H", "L", "E", "N">>), Bulk(Key)>>)
      [] c.cmd = "hmget" -> Ok(hmget_command(Key, <<Field>>))
      [] c.cmd = "hmset" -> Ok(hmset_command(Key, <<(<<Field, Val>>)>>))
      [] c.cmd = "hrandfield" -> hrandfield_command(Key, c.opts)
      [] c.cmd = "hscan" -> Ok(hscan_command(Key, c.cursor, c.opts))
      [] c.cmd = "hset" -> Ok(<<Bulk(<<"H", "S", "E", "T">>), Bulk(Key), Bulk(Field), Bulk(Val)>>)
      [] c.cmd = "hsetnx" -> Ok(<<Bulk(<<"H", "S", "E", "T", "N", "X">>), Bulk(Key), Bulk(Field), Bulk(Val)>>)
      [] c.cmd = "hstrlen" -> Ok(<<Bulk(<<"H", "S", "T", "R", "L", "E", "N">>), Bulk(Key), Bulk(Field)>>)
      [] c.cmd = "hvals" -> Ok(<<Bulk(<<"H", "V", "A", "L", "S">>), Bulk(Key)>>)
      [] c.cmd = "incr" -> Ok(<<Bulk(<<"I", "N", "C", "R">>), Bulk(Key)>>)
      [] c.cmd = "incrby" -> Ok(incrby_command(Key, 2))
      [] c.cmd = "keys" -> Ok(<<Bulk(<<"K", "E", "Y", "S">>), Bulk(<<"*">>)>>)
      [] c.cmd = "ping" -> Ok(<<Bulk(<<"P", "I", "N", "G">>)>>)
      [] c.cmd = "quit" -> Ok(<<Bulk(<<"Q", "U", "I", "T">>)>>)
      [] c.cmd = "publish" -> Ok(<<Bulk(<<"P", "U", "B", "L", "I", "S", "H">>), Bulk(<<"c">>), Bulk(<<"m">>)>>)
      [] c.cmd = "set" -> Ok(<<Bulk(<<"S", "E", "T">>), Bulk(Key), Bulk(Val)>>)

\* the method's match on the Value that send returned
Match(c, response) ==
    CASE c.cmd = "send" -> Ok(response)
      [] c.cmd = "acl_deluser" -> acl_deluser(response)
      [] c.cmd = "acl_genpass" -> acl_genpass(response)
      [] c.cmd = "acl_setuser" -> acl_setuser(response)
      [] c.cmd = "auth" -> auth(response)
      [] c.cmd = "del" -> del(response)
      [] c.cmd = "exists" -> exists(response)
      [] c.cmd = "get" -> get(response)
      [] c.cmd = "hdel" -> hdel(response)
      [] c.cmd = "hello" -> hello(response)
      [] c.cmd = "hexists" -> hexists(response)
      [] c.cmd = "hget" -> hget(response)
      [] c.cmd = "hgetall" -> hgetall(response)
      [] c.cmd = "hincrby" -> hincrby(response)
      [] c.cmd = "hincrbyfloat" -> hincrbyfloat(response)
      [] c.cmd = "hkeys" -> hkeys(response)
      [] c.cmd = "hlen" -> hlen(response)
      [] c.cmd = "hmget" -> hmget(response)
      [] c.cmd = "hmset" -> hmset(response)
      [] c.cmd = "hrandfield" -> hrandfield(c.opts, response)
      [] c.cmd = "hscan" -> hscan(c.opts, response)
      [] c.cmd = "hset" -> hset(response)
      [] c.cmd = "hsetnx" -> hsetnx(response)
      [] c.cmd = "hstrlen" -> hstrlen(response)
      [] c.cmd = "hvals" -> hvals(response)
      [] c.cmd = "incr" -> incr(response)
      [] c.cmd = "incrby" -> incrby(response)
      [] c.cmd = "keys" -> keys(response)
      [] c.cmd = "ping" -> ping(response)
      [] c.cmd = "quit" -> quit(response)
      [] c.cmd = "publish" -> publish(response)
      [] c.cmd = "set" -> set(response)

\* `let response = self.send(cmd)?; match response { .. }`
Returned(c, sent) == IF IsOk(sent) THEN Match(c, sent.val) ELSE sent

Bytes(tagged) == [i \in 1..Len(tagged) |-> tagged[i][1]]
Tagged(bytes, k) == [i \in 1..Len(bytes) |-> <<bytes[i], k>>]

ConnInit ==
    /\ pc = "idle" /\ call = None /\ nsent = 0
    /\ output = <<>> /\ owed = <<>> /\ input = <<>> /\ closed = "open"
    /\ frames = <<>> /\ chunk = <<>> /\ sendret = None /\ result = None /\ io = <<>>
    /\ log = <<>>

\* the last call that returned ended in a Valkey or a Client error
AfterError == log # <<>> /\ log[Len(log)].type \in {"Valkey", "Client"}

\* Begin on a Connection that an earlier Valkey or Client error has closed
Begin_closed_by_error(cmd) ==
    IF ~IsOk(cmd)
    THEN /\ result' = cmd /\ sendret' = None /\ pc' = "done"
         /\ UNCHANGED <<output, owed, io>>
    ELSE IF closed # "open" \/ AfterError
    THEN /\ sendret' = Err(StreamError("closed"))
         /\ result' = Err(StreamError("closed"))
         /\ pc' = "done"
         /\ io' = Append(io, "w")
         /\ UNCHANGED <<output, owed>>
    ELSE /\ output' = Append(output, send_request(cmd.val).val)
         /\ owed' = Append(owed, nsent + 1)
         /\ io' = Append(io, "w")
         /\ pc' = "reading"
         /\ sendret' = None /\ result' = None

\* the caller starts call c: its options are checked and the command array built;
\* then send encodes the request and writes and flushes it
Begin(cmd) ==
    IF ~IsOk(cmd)
    THEN /\ result' = cmd /\ sendret' = None /\ pc' = "done"
         /\ UNCHANGED <<output, owed, io>>
    ELSE IF closed # "open"
    THEN /\ sendret' = Err(StreamError(closed))
         /\ result' = Err(StreamError(closed))
         /\ pc' = "done"
         /\ io' = Append(io, "w")
         /\ UNCHANGED <<output, owed>>
    ELSE /\ output' = Append(output, send_request(cmd.val).val)
         /\ owed' = Append(owed, nsent + 1)
         /\ io' = Append(io, "w")
         /\ pc' = "reading"
         /\ sendret' = None /\ result' = None

Start(c) ==
    /\ pc = "idle"
    /\ call' = c
    /\ nsent' = nsent + 1
    /\ chunk' = <<>>
    /\ Begin(Request(c))
    /\ UNCHANGED <<input, closed, frames, log, codecVars, connectVars>>

\* the server answers the oldest request it has not answered yet with frame f
ServerReply(f) ==
    /\ owed # <<>> /\ closed = "open"
    /\ input' = input \o Tagged(f, Head(owed))
    /\ frames' = Append(frames, f)
    /\ owed' = Tail(owed)
    /\ UNCHANGED <<pc, call, nsent, output, closed, chunk, sendret, result, io, log, codecVars, connectVars>>

\* the stream ends (the peer closes) or fails
StreamEnds(how) ==
    /\ closed = "open"
    /\ closed' = how
    /\ UNCHANGED <<pc, call, nsent, output, owed, input, frames, chunk, sendret, result, io, log, codecVars, connectVars>>

\* what the call makes of what send returned: the result, or an abort
Settle(sent, returned) ==
    /\ sendret' = sent
    /\ result' = returned
    /\ pc' = IF IsPanic(returned) THEN "aborted" ELSE "done"

Finish(sent) == Settle(sent, Returned(call, sent))

\* blocking_read(1024) returns the n bytes that have arrived (at least one, at
\* most 1024); send decodes them and the call matches the Value
Read(n) ==
    /\ pc = "reading"
    /\ n \in 1..Min(ReadLen, Len(input))
    /\ chunk' = SubSeq(input, 1, n)
    /\ input' = SubSeq(input, n + 1, Len(input))
    /\ io' = Append(io, "r")
    /\ Finish(send_response(Bytes(SubSeq(input, 1, n))))
    /\ UNCHANGED <<call, nsent, output, owed, closed, frames, log, codecVars, connectVars>>

\* blocking_read on a stream that ended with nothing left to read
ReadFails ==
    /\ pc = "reading"
    /\ input = <<>> /\ closed # "open"
    /\ io' = Append(io, "r")
    /\ Finish(Err(StreamError(closed)))
    /\ UNCHANGED <<call, nsent, output, owed, input, closed, frames, chunk, log, codecVars, connectVars>>

\* the call returns to the caller
Return ==
    /\ pc = "done"
    /\ pc' = "idle"
    /\ call' = None /\ sendret' = None /\ result' = None /\ chunk' = <<>>
    /\ log' = Append(log, [type |-> IF IsOk(result) THEN "ok" ELSE result.err.type,
                           clean |-> input = <<>> /\ owed = <<>>])
    /\ UNCHANGED <<nsent, output, owed, input, closed, frames, io, codecVars, connectVars>>

\* the frames the server replies with (every shape a typed command tells apart)
ReplyFrames ==
    {<<"+", "O", "K", CR, LF>>,
     <<"+", "P", "O", "N", "G", CR, LF>>,
     <<"+", "N", "O", CR, LF>>,
     <<"-", "E", CR, LF>>,
     <<"!", "1", CR, LF, "E", CR, LF>>,
     <<":", "0", CR, LF>>,
     <<":", "1", CR, LF>>,
     <<":", "2", CR, LF>>,
     <<":", "-", "1", CR, LF>>,
     <<"$", "1", CR, LF, "a", CR, LF>>,
     <<"$", "-", "1", CR, LF>>,
     <<"_", CR, LF>>,
     <<"#", "t", CR, LF>>,
     <<",", "3", CR, LF>>,
     <<"*", "0", CR, LF>>,
     <<"*", "-", "1", CR, LF>>,
     <<"*", "1", CR, LF, "$", "1", CR, LF, "a", CR, LF>>,
     <<"*", "2", CR, LF, "$", "1", CR, LF, "a", CR, LF, "$", "1", CR, LF, "b", CR, LF>>,
     <<"*", "3", CR, LF, "$", "1", CR, LF, "a", CR, LF, "$", "1", CR, LF, "b", CR, LF, "$", "1", CR, LF, "c", CR, LF>>,
     <<"*", "4", CR, LF, "$", "1", CR, LF, "a", CR, LF, "$", "1", CR, LF, "b", CR, LF, "$", "1", CR, LF, "c", CR, LF, "$", "1", CR, LF, "d", CR, LF>>,
     <<"%", "2", CR, LF, "$", "1", CR, LF, "a", CR, LF, "$", "1", CR, LF, "b", CR, LF, "$", "1", CR, LF, "c", CR, LF, "$", "1", CR, LF, "d", CR, LF>>,
     <<"*", "2", CR, LF, "$", "1", CR, LF, "0", CR, LF, "*", "4", CR, LF, "$", "1", CR, LF, "a", CR, LF, "$", "1", CR, LF, "b", CR, LF, "$", "1", CR, LF, "c", CR, LF, "$", "1", CR, LF, "d", CR, LF>>,
     <<"*", "2", CR, LF, "$", "1", CR, LF, "0", CR, LF, "*", "0", CR, LF>>,
     <<"*", "2", CR, LF, "$", "1", CR, LF, "7", CR, LF, "*", "2", CR, LF, "$", "1", CR, LF, "a", CR, LF, "$", "1", CR, LF, "b", CR, LF>>,
     <<"*", "2", CR, LF, "$", "1", CR, LF, "7", CR, LF, "*", "1", CR, LF, "$", "1", CR, LF, "a", CR, LF>>,
     <<"*", "2", CR, LF, ":", "1", CR, LF, "*", "0", CR, LF>>,
     <<"*", "2", CR, LF, "$", "1", CR, LF, "0", CR, LF, "$", "1", CR, LF, "a", CR, LF>>,
     <<"*", "2", CR, LF, "$", "1", CR, LF, "a", CR, LF, "_", CR, LF>>,
     <<"*", "2", CR, LF, "$", "1", CR, LF, "a", CR, LF, ":", "1", CR, LF>>,
     <<"*", "2", CR, LF, ":", "1", CR, LF, "$", "1", CR, LF, "a", CR, LF>>,
     <<"%", "0", CR, LF>>,
     <<"%", "1", CR, LF, "$", "1", CR, LF, "a", CR, LF, "$", "1", CR, LF, "b", CR, LF>>,
     <<"%", "1", CR, LF, "$", "1", CR, LF, "a", CR, LF, ":", "1", CR, LF>>,
     <<"%", "1", CR, LF, ":", "1", CR, LF, "$", "1", CR, LF, "b", CR, LF>>,
     <<"~", "0", CR, LF>>,
     <<">", "0", CR, LF>>,
     <<"*", "1", CR, LF, "~", "0", CR, LF>>,
     <<"*", "2", CR, LF, "$", "1", CR, LF, "a", CR, LF, "%", "0", CR, LF>>}

\* the frames the server replies with to a raw send
SendFrames ==
    {<<"+", "O", "K", CR, LF>>,
     <<":", "1", CR, LF>>,
     <<"$", "1", CR, LF, "a", CR, LF>>,
     <<"*", "1", CR, LF, ":", "1", CR, LF>>,
     <<"-", "E", CR, LF>>}

\* a Connection on which the caller issues raw sends one after the other
SendNext ==
    \/ (nsent < MaxSends /\ Start(RawCall))
    \/ \E f \in SendFrames : ServerReply(f)
    \/ \E how \in {"closed", "failed"} : StreamEnds(how)
    \/ \E n \in 1..Min(ReadLen, Len(input)) : Read(n)
    \/ ReadFails
    \/ Return

\* a Connection, newly opened, on which the caller issues one typed command
CmdNext ==
    \/ \E c \in TypedCalls : (nsent = 0 /\ Start(c))
    \/ \E f \in ReplyFrames : ServerReply(f)
    \/ \E how \in {"closed", "failed"} : StreamEnds(how)
    \/ \E n \in 1..Min(ReadLen, Len(input)) : Read(n)
    \/ ReadFails
    \/ Return

MaxCmds == 2

\* the typed commands the caller issues one after the other
SeqCalls ==
    {Call("get", NoneV, NoneV), Call("hset", NoneV, NoneV),
     Call("hello", Some([proto_ver |-> NoneV, auth |-> Some(<<User, Pass>>),
                         client_name |-> NoneV]), NoneV)}

\* the frames the server replies with to them
SeqFrames ==
    {<<"-", "E", CR, LF>>,
     <<":", "1", CR, LF>>,
     <<"$", "1", CR, LF, "a", CR, LF>>}

\* a Connection whose stream stays open, on which the caller issues typed
\* commands one after the other
SeqNext ==
    \/ \E c \in SeqCalls : (nsent < MaxCmds /\ Start(c))
    \/ \E f \in SeqFrames : ServerReply(f)
    \/ \E n \in 1..Min(ReadLen, Len(input)) : Read(n)
    \/ Return

-----------------------------------------------------------------------------
(* connect: resolve, then for each address in turn open and hello          *)

MaxAddrs == 3
Host == <<"h">>
Port == 6379

\* the frames a server replies with to HELLO
HelloFrames ==
    {<<"%", "1", CR, LF, "$", "1", CR, LF, "a", CR, LF, ":", "1", CR, LF>>,
     <<"*", "2", CR, LF, "$", "1", CR, LF, "a", CR, LF, ":", "1", CR, LF>>,
     <<"-", "E", CR, LF>>,
     <<"*", "1", CR, LF, "$", "1", CR, LF, "a", CR, LF>>}

\* what the new connection meets during hello: the write fails, or the first n
\* bytes of frame f have arrived when the read returns (none: the stream ended)
HelloEnvs ==
    {[write |-> "closed", f |-> <<>>, n |-> 0]}
    \cup UNION {{[write |-> "open", f |-> fr, n |-> k] : k \in 0..Len(fr)} :
                    fr \in HelloFrames}

\* the error of connect with the port left out of the text
unable_to_connect_without_port(host, port) ==
    Err(Client(<<"unable to connect to ", host>>))

unable_to_connect(host, port) ==
    Err(Client(<<"unable to connect to ", host, ":", to_string(port)>>))

\* send on a newly opened connection
send_fresh(command, env) ==
    IF env.write # "open" THEN Err(StreamError(env.write))
    ELSE IF Min(env.n, Len(env.f)) = 0 THEN Err(StreamError("closed"))
    ELSE send_response(SubSeq(env.f, 1, Min(ReadLen, Min(env.n, Len(env.f)))))

\* conn.hello(opts.clone()) on a newly opened connection
hello_fresh(opts, env) ==
    Try(hello_command(opts), LAMBDA cmd :
        Returned(Call("hello", opts, NoneV), send_fresh(cmd, env)))

Outcome(r) == IF IsErr(r) THEN r.err.type ELSE r.kind

ConnectInit ==
    /\ kpc = "start" /\ kopts \in HelloOptsSet
    /\ addrs = None /\ tried = <<>> /\ kresult = None

\* resolve_ip_socket_addresses succeeds with n addresses; find_map over none
\* of them returns at once
Resolve(n) ==
    /\ kpc = "start"
    /\ addrs' = Ok([i \in 1..n |-> i])
    /\ IF n = 0
       THEN kresult' = unable_to_connect(Host, Port) /\ kpc' = "returned"
       ELSE kresult' = kresult /\ kpc' = "trying"
    /\ UNCHANGED <<kopts, tried, codecVars, connVars>>

\* resolve_ip_socket_addresses(..)? fails
ResolveFails ==
    /\ kpc = "start"
    /\ addrs' = Err(Client(<<"Network NameUnresolvable">>))
    /\ kresult' = Err(Client(<<"Network NameUnresolvable">>))
    /\ kpc' = "returned"
    /\ UNCHANGED <<kopts, tried, codecVars, connVars>>

\* the find_map closure on the next address: open it, and if that succeeded
\* say hello; a failure of either moves on, and after the last address the
\* match on None returns the error
\* the closure collecting the connections instead of stopping at the first:
\* a success is kept and the iteration goes on to the next address
Closure_without_stop(i, opened, h) ==
    /\ tried' = Append(tried, [addr |-> addrs.val[i], opened |-> opened,
                               hello |-> Outcome(h)])
    /\ IF IsPanic(h) THEN kresult' = h /\ kpc' = "aborted"
       ELSE IF i = Len(addrs.val)
            THEN /\ kresult' = IF IsOk(h) THEN Ok([addr |-> addrs.val[i]])
                               ELSE unable_to_connect(Host, Port)
                 /\ kpc' = "returned"
       ELSE kresult' = kresult /\ kpc' = kpc

\* the closure handing hello's error on: an address whose hello returned an
\* error ends connect with that error
Closure_returning_hello_error(i, opened, h) ==
    /\ tried' = Append(tried, [addr |-> addrs.val[i], opened |-> opened,
                               hello |-> Outcome(h)])
    /\ IF IsOk(h) THEN kresult' = Ok([addr |-> addrs.val[i]]) /\ kpc' = "returned"
       ELSE IF IsPanic(h) THEN kresult' = h /\ kpc' = "aborted"
       ELSE IF IsErr(h) THEN kresult' = h /\ kpc' = "returned"
       ELSE IF i = Len(addrs.val)
            THEN kresult' = unable_to_connect(Host, Port) /\ kpc' = "returned"
       ELSE kresult' = kresult /\ kpc' = kpc

Closure(i, opened, h) ==
    /\ tried' = Append(tried, [addr |-> addrs.val[i], opened |-> opened,
                               hello |-> Outcome(h)])
    /\ IF IsOk(h) THEN kresult' = Ok([addr |-> addrs.val[i]]) /\ kpc' = "returned"
       ELSE IF IsPanic(h) THEN kresult' = h /\ kpc' = "aborted"
       ELSE IF i = Len(addrs.val)
            THEN kresult' = unable_to_connect(Host, Port) /\ kpc' = "returned"
       ELSE kresult' = kresult /\ kpc' = kpc

Attempt(opened, env) ==
    /\ kpc = "trying"
    /\ Closure(Len(tried) + 1, opened, IF opened THEN hello_fresh(kopts, env) ELSE None)
    /\ UNCHANGED <<kopts, addrs, codecVars, connVars>>

ConnectNext ==
    \/ \E n \in 0..MaxAddrs : Resolve(n)
    \/ ResolveFails
    \/ \E env \in HelloEnvs : Attempt(TRUE, env)
    \/ Attempt(FALSE, None)

-----------------------------------------------------------------------------
(* Specifications *)

CodecNext ==
    \/ \E tag \in Aggregates, alone \in BOOLEAN : Nest(tag, alone)
    \/ DecodeWire
    \/ Encode
    \/ Decode

\* what a specification leaves alone
CodecRest == value = Ok(Null) /\ wire = <<"_", CR, LF>> /\ CodecIdle
ConnectRest == kpc = "start" /\ kopts = NoneV /\ addrs = None /\ tried = <<>> /\ kresult = None

\* the codec alone
InitCodec == CodecInit /\ ConnInit /\ ConnectRest
SpecCodec == InitCodec /\ [][CodecNext]_vars

\* the decoder on raw input
DecodeNext ==
    \/ \E tag \in Aggregates, alone \in BOOLEAN : Wrap(tag, alone)
    \/ \E n \in 0..(Len(wire) - 1) : Truncate(n)
    \/ \E i \in 1..(Len(wire) - 1), keep \in {CR, LF} : BareEnd(i, keep)
    \/ \E b \in UnknownBytes : Reprefix(b)
    \/ DecodeInput
    \/ Reencode

InitDecode == DecodeInit /\ ConnInit /\ ConnectRest
SpecDecode == InitDecode /\ [][DecodeNext]_vars

\* a new Connection
InitConn == CodecRest /\ ConnInit /\ ConnectRest

\* raw sends on one Connection
SpecSend == InitConn /\ [][SendNext]_vars

\* one typed command on a new Connection
SpecCmd == InitConn /\ [][CmdNext]_vars

\* typed commands in sequence on one Connection
SpecSeq == InitConn /\ [][SeqNext]_vars

\* connect
InitConnect == CodecRest /\ ConnInit /\ ConnectInit
SpecConnect == InitConnect /\ [][ConnectNext]_vars

-----------------------------------------------------------------------------
(* The codec claims, under SpecCodec *)

EndsWithCRLF(bytes) ==
    Len(bytes) >= 2 /\ is_crlf(bytes[Len(bytes) - 1], bytes[Len(bytes)])

\* the length line of an aggregate's encoding is followed by CRLF
LengthLineCRLF(v, bytes) ==
    /\ Len(bytes) >= Len(to_string(Len(v.val))) + 3
    /\ SubSeq(bytes, 1, Len(to_string(Len(v.val))) + 3)
          = <<TypeByte(v.tag)>> \o to_string(Len(v.val)) \o CRLF_BYTES

\* C1: round trip.  For every Value v of every tag, built by a caller or
\* obtained by decoding valid input, encode(v) succeeds and decode(encode(v))
\* succeeds and is structurally equal to v.
C1_RoundTrip ==
    /\ cpc \in {"encoded", "decoded"} => IsOk(encoded)
    /\ cpc = "decoded" => decoded = value

\* C2: the encoding of every aggregate (Array, Map, Set, Push) is the type
\* byte, the decimal count, CRLF, then the children; the encoding of every
\* Value ends with CRLF.
C2_LengthLineThenCRLF ==
    (cpc \in {"encoded", "decoded"} /\ IsOk(encoded)) =>
        /\ EndsWithCRLF(encoded.val)
        /\ value.val.tag \in Aggregates => LengthLineCRLF(value.val, encoded.val)

-----------------------------------------------------------------------------
(* The decoder claims, under SpecDecode *)

\* the result is an error of the Resp kind
RespError(r) == IsErr(r) /\ r.err.type = "Resp"

\* the three encodings of null
NullFrames == {<<"_", CR, LF>>, <<"$", "-", "1", CR, LF>>, <<"*", "-", "1", CR, LF>>}

\* C12: null equivalence.  decode of the RESP3 null `_\r\n`, of the RESP2 null
\* bulk `$-1\r\n` and of the RESP2 null array `*-1\r\n` each return the same
\* Null Value.
C12_NullForms ==
    (cpc = "decoded" /\ wire \in NullFrames) => decoded = Ok(Null)

C12_Witness ==
    /\ cpc = "decoded" /\ wire = <<"*", "-", "1", CR, LF>> /\ decoded = Ok(Null)

\* C13: prefix dispatch.  decode of any buffer whose first byte is not one of
\* + - : $ * _ # , ( ! = % ~ > returns a Resp error, never a Value.
C13_PrefixDispatch ==
    (cpc = "decoded" /\ wire # <<>> /\ wire[1] \notin TypeBytes) => RespError(decoded)

C13_Witness ==
    /\ cpc = "decoded" /\ wire = <<"x", "O", "K", CR, LF>>
    /\ decoded = Err(Resp(<<"invalid RESP type", "x">>))

\* the limit of the specification: 512 MiB
Limit == 512 * 1024 * 1024

\* the part of the error text that names the kind of frame
LengthError(prefix) ==
    CASE prefix = "$" -> "invalid bulk string length"
      [] prefix = "!" -> "invalid bulk error length"
      [] prefix = "=" -> "invalid verbatim string length"

\* what decode makes of a length header that nothing follows: Null for a
\* bulk length of -1, the length error below the lower bound and from the
\* limit on, and otherwise the length is accepted and the payload is missed
HeaderAlone(prefix, n) ==
    IF prefix = "$" /\ n = -1 THEN Ok(Null)
    ELSE IF n < 0 \/ n >= Limit THEN Err(Resp(<<LengthError(prefix), n>>))
    ELSE Err(Resp(<<"failed to fill whole buffer">>))

C15_CRLFStrict ==
    (cpc = "decoded" /\ source = "bare") => RespError(decoded)

\* C16: decode is total.  For every input byte sequence (empty input,
\* truncated frames and header lines with an empty payload included) decode
\* returns one complete Value or a Resp error; it never aborts.
C16_DecodeTotal ==
    cpc = "decoded" => (IsOk(decoded) \/ RespError(decoded))

\* the buffer is one header line: its only LF is its last byte, after a CR
OneLine(buf) ==
    /\ Len(buf) >= 3 /\ EndsWithCRLF(buf)
    /\ \A i \in 1..(Len(buf) - 1) : buf[i] # LF

\* C17: decode accepts a boolean frame only when its header payload is
\* exactly the one byte `t` or `f`, and a `_` null frame only when its header
\* payload is empty; any other header payload is rejected with a Resp error.
C17_ExactPayload ==
    (cpc = "decoded" /\ OneLine(wire)) =>
        /\ wire[1] = "#" =>
               IF SubSeq(wire, 2, Len(wire) - 2) \in {<<"t">>, <<"f">>}
               THEN decoded = Ok(V("Boolean", wire[2] = "t"))
               ELSE RespError(decoded)
        /\ wire[1] = "_" =>
               IF Len(wire) = 3 THEN decoded = Ok(Null) ELSE RespError(decoded)

\* the number of bytes of the buffer that one decode consumed
Consumed(bytes) == TryAt(Decoder_decode(bytes, 1), LAMBDA v, at : at - 1)

\* the type bytes of the aggregates
AggregateBytes == {"*", "%", "~", ">"}

TagOf(byte) ==
    CASE byte = "*" -> "Array" [] byte = "%" -> "Map" [] byte = "~" -> "Set"
      [] byte = ">" -> "Push"

\* the buffer opens with the complete length line of an aggregate of 0 to 9
HasCount(buf) ==
    /\ Len(buf) >= 4 /\ buf[1] \in AggregateBytes
    /\ IsDigit(buf[2]) /\ is_crlf(buf[3], buf[4])

\* C26: an aggregate's length prefix counts elements.  decode of an Array, Set
\* or Push with prefix N consumes exactly N child frames, of a Map with prefix
\* N exactly 2N (key, value, in order), and yields an aggregate of exactly N
\* elements or pairs; with fewer child frames in the buffer decode returns a
\* Resp error; an Array prefix of -1 yields Null and a negative prefix of a
\* Map, Set or Push is a Resp error.
C26_PrefixCounts ==
    cpc = "decoded" =>
        /\ (source = "frame" /\ HasCount(wire)) =>
               /\ IsOk(decoded)
               /\ decoded.val.tag = TagOf(wire[1])
               /\ Len(decoded.val.val) = DigitVal(wire[2])
               /\ Consumed(wire) = Len(wire)
        /\ (source = "truncated" /\ HasCount(wire)) => RespError(decoded)
        /\ wire = LengthHeader("*", -1) => decoded = Ok(Null)
        /\ wire \in {LengthHeader(p, -1) : p \in {"%", "~", ">"}} => RespError(decoded)

\* the bytes between the CRLFs of the length-prefixed encoding of v
BulkPayload(v) ==
    IF v.tag = "VerbatimString" THEN v.val[1] \o <<":">> \o v.val[2] ELSE v.val

\* the Value of the payload under each length-prefixed type byte
Announced(prefix) ==
    CASE prefix = "$" -> V("BulkString", Payload)
      [] prefix = "!" -> V("BulkError", Payload)
      [] prefix = "=" -> V("VerbatimString", <<(<<"t">>), (<<"a">>)>>)

\* C27: for BulkString, BulkError and VerbatimString, encode announces
\* exactly the byte length of the payload, and decode returns a payload of
\* exactly the announced length N: it reads N + 2 bytes, requires the last two
\* to be CRLF, and returns a Resp error when the payload that is there is
\* longer or shorter than N.
C27_ExactLength ==
    /\ cpc \in {"decoded", "reencoded"} =>
           \A p \in {"$", "!", "="}, n \in (Len(Payload) - 1)..(Len(Payload) + 1) :
               wire = Announce(p, n, Payload) =>
                   IF n = Len(Payload) THEN decoded = Ok(Announced(p))
                   ELSE RespError(decoded)
    /\ (cpc = "reencoded"
        /\ decoded.val.tag \in {"BulkString", "BulkError", "VerbatimString"}) =>
           encoded = Ok(Announce(CHOOSE p \in {"$", "!", "="} :
                                     Announced(p).tag = decoded.val.tag,
                                 Len(BulkPayload(decoded.val)), BulkPayload(decoded.val)))

C27_Witness ==
    /\ cpc = "decoded" /\ wire = Announce("$", Len(Payload) - 1, Payload)
    /\ RespError(decoded)

\* C29: every child that decode stores inside an Array, Map, Set or Push
\* (the re-encoded bytes of the decoded child) converts back to a Value; the
\* conversion never fails, in particular when the child is itself a Map, Set
\* or Push.
C29_ChildrenConvert ==
    (cpc = "decoded" /\ IsOk(decoded) /\ decoded.val.tag \in Aggregates) =>
        \A i \in 1..Len(children(decoded.val)) :
            IsOk(Value_from(children(decoded.val)[i]))

-----------------------------------------------------------------------------
(* The send claims, under SpecSend *)

\* C3: the Value the k-th send returns is decoded only from bytes of the
\* server's reply to the k-th request.
C3_OwnReplyOnly ==
    (pc = "done" /\ IsOk(sendret)) =>
        \A i \in 1..Consumed(Bytes(chunk)) : chunk[i][2] = nsent

\* C4: once the server has sent its reply to the request, however the bytes
\* arrive, send returns the decoded Value of the complete reply.
C4_CompleteReply ==
    (pc = "done" /\ sendret # None /\ Len(frames) >= nsent /\ io[Len(io)] = "r") =>
        sendret = decode(frames[nsent])

\* send has returned from a failed write, or from a read
WriteFailed == pc = "done" /\ io[Len(io)] = "w"
ReadDone == pc = "done" /\ io[Len(io)] = "r"

\* a Client error whose message starts with "Stream"
StreamFailure(r) ==
    /\ IsErr(r) /\ r.err.type = "Client"
    /\ r.err.msg[1] \in {"Stream Closed", "Stream LastOperationFailed"}

\* C24: a stream failure while send writes the request or reads the reply is
\* returned as a Client error whose message starts with "Stream"; when the
\* write fails, send performs no read and decodes nothing.
C24_StreamErrors ==
    /\ WriteFailed =>
           /\ closed # "open" /\ StreamFailure(sendret) /\ result = sendret
           /\ chunk = <<>>
    /\ (ReadDone /\ chunk = <<>>) =>
           (closed # "open" /\ StreamFailure(sendret) /\ result = sendret)
    /\ (pc = "done" /\ IsErr(sendret) /\ sendret.err.type = "Client") =>
           (closed # "open" /\ StreamFailure(sendret))

C24_Witness ==
    /\ WriteFailed /\ nsent = 2 /\ closed = "failed"
    /\ sendret = Err(Client(<<"Stream LastOperationFailed", "failed">>))
    /\ io = <<"w", "r", "w">>

\* C25: one request in flight.  Every send does one write-and-flush and then
\* the read of its reply before it returns, so the I/O events of a Connection
\* whose stream is open alternate write, read, write, read, and no request is
\* written while the reply to an earlier request is still unread.
C25_OneInFlight ==
    /\ closed = "open" =>
           \A i \in 1..Len(io) : io[i] = IF i % 2 = 1 THEN "w" ELSE "r"
    /\ pc = "idle" => Len(io) % 2 = 0 \/ closed # "open"
    /\ pc = "reading" =>
           /\ \A i \in 1..Len(input) : input[i][2] = nsent
           /\ \A i \in 1..Len(owed) : owed[i] = nsent

\* C30: decode consumes the first complete frame of the buffer and ignores
\* every byte after it, decode(f ++ s) = decode(f); so when the chunk that
\* send read holds more than one frame, send returns the first frame, and the
\* rest of the chunk is dropped, not kept for the next send.
C30_FirstFrameOnly ==
    /\ (ReadDone /\ chunk # <<>>) =>
           \A f \in SendFrames :
               (Len(f) <= Len(chunk) /\ SubSeq(Bytes(chunk), 1, Len(f)) = f) =>
                   sendret = decode(f)
    /\ pc = "idle" => chunk = <<>>

C30_Witness ==
    /\ ReadDone
    /\ Bytes(chunk) = <<":", "1", CR, LF, "+", "O", "K", CR, LF>>
    /\ sendret = Ok(V("Integer", 1))
    /\ input = <<>>

-----------------------------------------------------------------------------
(* The claim about commands in sequence, under SpecSeq *)

\* the Connection as the call in progress found it: new, or left by a call
\* that returned a Valkey or Client error with its reply fully read
AsNew == log = <<>>
Recovered == AfterError /\ log[Len(log)].clean

\* the call in progress wrote its request and got the result that the reply
\* to that request determines
OwnRequest ==
    /\ output # <<>> /\ output[Len(output)] = send_request(Request(call).val).val
OwnResult ==
    /\ io[Len(io)] = "r"
    /\ \A i \in 1..Len(chunk) : chunk[i][2] = nsent
    /\ Bytes(chunk) = SubSeq(frames[Len(frames)], 1, Len(chunk))
    /\ sendret = decode(Bytes(chunk))
    /\ result = Returned(call, sendret)

\* C23: after a typed command returned a Valkey error or a Client error
\* (option validation, or an unexpected reply shape whose frame was fully
\* read), the Connection remains usable: the next command writes its request
\* and returns the result determined by the server's reply to that request,
\* exactly as on a Connection on which the failed command was never issued.
C23_UsableAfterError ==
    (AsNew \/ Recovered) =>
        /\ (pc = "reading") => (OwnRequest /\ owed \in {<<>>, <<nsent>>})
        /\ (pc \in {"done", "aborted"} /\ IsOk(Request(call))) =>
               (OwnRequest /\ OwnResult)
        /\ (pc = "done" /\ ~IsOk(Request(call))) => result = Request(call)

C23_Witness ==
    /\ Recovered /\ log[Len(log)].type = "Valkey"
    /\ pc = "done" /\ call.cmd = "get"
    /\ Bytes(chunk) = <<"$", "1", CR, LF, "a", CR, LF>>
    /\ result = Ok(Some(<<"a">>))

-----------------------------------------------------------------------------
(* The typed-command claims, under SpecCmd *)

\* the call in progress has got a Value from send and has matched it
Matched == pc \in {"done", "aborted"} /\ IsOk(sendret)

\* C5: when the decoded reply to a typed command is Error(msg), the command
\* returns the error Valkey(msg) with exactly that message.
C5_ErrorReplyIsValkey ==
    (Matched /\ sendret.val.tag = "Error") => result = Err(Valkey(sendret.val.val))

C5_Witness ==
    /\ Matched /\ call.cmd = "get"
    /\ sendret = Ok(V("Error", <<"E">>))
    /\ result = Err(Valkey(<<"E">>))

\* C6: when the decoded reply to a typed command is a BulkError, the command
\* returns a Valkey error, not a Client error.
C6_BulkErrorIsValkey ==
    (Matched /\ sendret.val.tag = "BulkError") =>
        (IsErr(result) /\ result.err.type = "Valkey")

\* the replies C7 lists: an HSCAN Array of fewer than 2 elements, an HGETALL or
\* HELLO Array of odd length, an EXISTS/HEXISTS/HSETNX Integer other than 0 or 1
ListedShape(c, response) ==
    \/ c.cmd = "hscan" /\ response.tag = "Array" /\ Len(response.val) < 2
    \/ c.cmd \in {"hgetall", "hello"} /\ response.tag = "Array" /\ Len(response.val) % 2 = 1
    \/ c.cmd \in {"exists", "hexists", "hsetnx"} /\ response.tag = "Integer"
       /\ response.val \notin {0, 1}

\* C7: a decoded reply whose shape the command does not accept makes the
\* command return a Client error; whatever the decoded reply, the command
\* returns and never aborts.
C7_ClientErrorNeverAbort ==
    Matched =>
        /\ ~IsPanic(result)
        /\ ListedShape(call, sendret.val) => (IsErr(result) /\ result.err.type = "Client")

\* the request array of hello as the specification lists it
HelloArray(opts) ==
    <<Bulk(<<"H", "E", "L", "L", "O">>)>>
    \o (IF opts.some /\ opts.val.proto_ver.some THEN <<Bulk(opts.val.proto_ver.val)>> ELSE <<>>)
    \o (IF opts.some /\ opts.val.auth.some
        THEN <<Bulk(<<"A", "U", "T", "H">>), Bulk(User), Bulk(Pass)>> ELSE <<>>)
    \o (IF opts.some /\ opts.val.client_name.some
        THEN <<Bulk(<<"S", "E", "T", "N", "A", "M", "E">>), Bulk(opts.val.client_name.val)>>
        ELSE <<>>)

NeedsProto(opts) ==
    opts.some /\ ~opts.val.proto_ver.some /\ (opts.val.auth.some \/ opts.val.client_name.some)

\* C10: hello's request is HELLO, protover, AUTH user pass, SETNAME name, each
\* optional part only when set; with auth or client-name set and proto-ver
\* not, hello returns the Client error naming the option (auth first) and
\* nothing has been written to or read from the connection.
C10_HelloRequest ==
    (pc # "idle" /\ call.cmd = "hello") =>
        IF NeedsProto(call.opts)
        THEN /\ pc = "done"
             /\ result = Err(Client(<<IF call.opts.val.auth.some
                                       THEN "proto-ver must be specified to use auth"
                                       ELSE "proto-ver must be specified to use client-name">>))
             /\ output = <<>> /\ io = <<>>
        ELSE output # <<>> => output[1] = encode(V("Array",
                 [i \in 1..Len(HelloArray(call.opts)) |->
                     encode(HelloArray(call.opts)[i]).val])).val

C10_Witness ==
    /\ pc = "done" /\ call.cmd = "hello"
    /\ call.opts.some /\ call.opts.val.auth.some /\ ~call.opts.val.proto_ver.some
    /\ result = Err(Client(<<"proto-ver must be specified to use auth">>))
    /\ io = <<>>

\* a bulk string as the RESP protocol writes it
WireBulk(str) == <<"$">> \o to_string(Len(str)) \o CRLF_BYTES \o str \o CRLF_BYTES

\* the (name, value) pairs of a hash or of a server description, each value
\* with the frame the server writes for it
PairA == [name |-> <<"a">>, value |-> Bulk(<<"b">>), wire |-> WireBulk(<<"b">>)]
PairC == [name |-> <<"c">>, value |-> Bulk(<<"d">>), wire |-> WireBulk(<<"d">>)]
PairN == [name |-> <<"a">>, value |-> V("Integer", 1), wire |-> <<":", "1", CR, LF>>]

PairLists == <<(<<>>), (<<PairA>>), (<<PairA, PairC>>), (<<PairN>>)>>

PairsWire(P) == Concat([i \in 1..Len(P) |-> WireBulk(P[i].name) \o P[i].wire])

\* the RESP2 reply for the pairs: a flat Array of names and values in turn
Resp2Frame(P) == WireAggregate("*", 2 * Len(P), PairsWire(P))

\* the RESP3 reply for the pairs: a Map
Resp3Frame(P) == WireAggregate("%", Len(P), PairsWire(P))

\* the two decoded replies of each list of pairs
PairReplies ==
    [i \in 1..Len(PairLists) |->
        [pairs |-> PairLists[i],
         resp2 |-> decode(Resp2Frame(PairLists[i])),
         resp3 |-> decode(Resp3Frame(PairLists[i]))]]

\* send returned the decoded reply
IsReply(reply) == sendret.val.tag = reply.val.tag /\ sendret = reply

AllBulk(P) == \A i \in 1..Len(P) : P[i].value.tag = "BulkString"

\* C11: for the same ordered list of (field, value) bulk-string pairs, the
\* RESP2 reply (a flat Array) and the RESP3 reply (a Map) make hgetall return
\* the same ordered list of (string, string) pairs, the list itself; the
\* same holds for hello's list of (name, Value).
C11_SameList ==
    Matched =>
        \A k \in 1..Len(PairReplies) :
            (IsReply(PairReplies[k].resp2) \/ IsReply(PairReplies[k].resp3)) =>
                /\ (call.cmd = "hgetall" /\ AllBulk(PairLists[k])) =>
                       result = Ok([i \in 1..Len(PairLists[k]) |->
                                       <<PairLists[k][i].name, PairLists[k][i].value.val>>])
                /\ call.cmd = "hello" =>
                       result = Ok([i \in 1..Len(PairLists[k]) |->
                                       <<PairLists[k][i].name, PairLists[k][i].value>>])

C11_Witness ==
    /\ Matched /\ call.cmd = "hgetall"
    /\ frames = <<Resp3Frame(<<PairA, PairC>>)>>
    /\ sendret.val.tag = "Map"
    /\ result = Ok(<<(<<(<<"a">>), (<<"b">>)>>), (<<(<<"c">>), (<<"d">>)>>)>>)

\* what the error of a count other than 1 says was counted
CountNoun(cmd) ==
    CASE cmd = "hset" -> "fields set"
      [] cmd \in {"del", "hdel"} -> "keys deleted"
      [] cmd = "acl_deluser" -> "users deleted"

\* C18: hset returns unit exactly when the reply is Integer(1); for any other
\* Integer(N) it returns Client("Unexpected response: N fields set"); del,
\* hdel and acl_deluser follow the same rule, each error naming the count.
C18_OnlyOne ==
    (Matched /\ call.cmd \in {"hset", "del", "hdel", "acl_deluser"}) =>
        /\ sendret.val.tag = "Integer" =>
               result = IF sendret.val.val = 1 THEN Ok(Unit)
                        ELSE Err(Client(<<"Unexpected response", sendret.val.val,
                                          CountNoun(call.cmd)>>))
        /\ result = Ok(Unit) => (sendret.val.tag = "Integer" /\ sendret.val.val = 1)

C18_Witness ==
    /\ Matched /\ call.cmd = "hset"
    /\ sendret.val.tag = "Integer" /\ sendret.val.val = 2
    /\ result = Err(Client(<<"Unexpected response", 2, "fields set">>))

\* the encoding of a request array, as send writes it
RequestBytes(array) ==
    encode(V("Array", [i \in 1..Len(array) |-> encode(array[i]).val])).val

\* an Array of bulk strings as the RESP protocol writes it
BulkArrayFrame(strs) ==
    WireAggregate("*", Len(strs), Concat([i \in 1..Len(strs) |-> WireBulk(strs[i])]))

\* lists of bulk strings a reply holds
BulkLists ==
    {<<>>, <<(<<"a">>)>>, <<(<<"a">>), (<<"b">>)>>, <<(<<"a">>), (<<"b">>), (<<"c">>)>>,
     <<(<<"a">>), (<<"b">>), (<<"c">>), (<<"d">>)>>}

\* each item with None
Bare(strs) == [i \in 1..Len(strs) |-> <<strs[i], NoneV>>]

\* the items two by two: (field, Some(value))
Interleaved(strs) ==
    [i \in 1..(Len(strs) \div 2) |-> <<strs[2 * i - 1], Some(strs[2 * i])>>]

\* the option no_values is given and true
NoValuesTrue(opts) == opts.some /\ opts.val.no_values = Some(TRUE)

\* the request array of hscan as the specification lists it
HscanArray(c) ==
    <<Bulk(<<"H", "S", "C", "A", "N">>), Bulk(Key),
      Bulk(IF c.cursor.some THEN c.cursor.val ELSE <<"0">>)>>
    \o (IF c.opts.some /\ c.opts.val.match_.some
        THEN <<Bulk(<<"M", "A", "T", "C", "H">>), Bulk(c.opts.val.match_.val)>> ELSE <<>>)
    \o (IF c.opts.some /\ c.opts.val.count.some
        THEN <<Bulk(<<"C", "O", "U", "N", "T">>), Bulk(to_string(c.opts.val.count.val))>>
        ELSE <<>>)
    \o (IF NoValuesTrue(c.opts)
        THEN <<Bulk(<<"N", "O", "V", "A", "L", "U", "E", "S">>)>> ELSE <<>>)

\* the replies to hscan: a cursor and the elements, with the decoded reply
ScanReplies ==
    {[cursor |-> c, elems |-> e,
      reply |-> decode(WireAggregate("*", 2, WireBulk(c) \o BulkArrayFrame(e)))] :
        c \in {<<"0">>, <<"7">>}, e \in BulkLists}

\* C19: hscan sends HSCAN key cursor (cursor "0" when none is given), then
\* MATCH p, COUNT n and NOVALUES, in this order, for the options that are set;
\* for a reply Array [cursor bulk, elements Array] the next cursor is None iff
\* the cursor bulk is "0" and Some(cursor) otherwise, and the elements become
\* (field, Some(value)) per interleaved pair when no_values is not true and
\* (field, None) per element when it is, in order.
C19_Hscan ==
    (pc # "idle" /\ call.cmd = "hscan") =>
        /\ output # <<>> => output[1] = RequestBytes(HscanArray(call))
        /\ Matched =>
               \A r \in ScanReplies :
                   (IsReply(r.reply)
                    /\ (NoValuesTrue(call.opts) \/ Len(r.elems) % 2 = 0)) =>
                   result = Ok(<<IF r.cursor = <<"0">> THEN NoneV ELSE Some(r.cursor),
                                 IF NoValuesTrue(call.opts)
                                 THEN Bare(r.elems) ELSE Interleaved(r.elems)>>)

C19_Witness ==
    /\ Matched /\ call.cmd = "hscan"
    /\ call.opts.some /\ call.opts.val.no_values = Some(FALSE)
    /\ frames = <<WireAggregate("*", 2, WireBulk(<<"0">>)
                    \o BulkArrayFrame(<<(<<"a">>), (<<"b">>), (<<"c">>), (<<"d">>)>>))>>
    /\ result = Ok(<<NoneV, <<(<<(<<"a">>), Some(<<"b">>)>>), (<<(<<"c">>), Some(<<"d">>)>>)>> >>)

\* the option with-values is given and true
WithValuesTrue(opts) == opts.some /\ opts.val.with_values = Some(TRUE)

\* the decoded Array replies to hrandfield
FieldReplies == {[items |-> e, reply |-> decode(BulkArrayFrame(e))] : e \in BulkLists}

\* C20: hrandfield with with-values true and no count returns
\* Client("count must be specified to use with-values") without sending
\* anything; otherwise a BulkString reply yields Some([(field, None)]), a Null
\* reply or an empty Array yields None, and a non-empty Array yields
\* (field, None) per item when with-values is not true and
\* (field, Some(value)) per interleaved pair when it is.
C20_Hrandfield ==
    (pc # "idle" /\ call.cmd = "hrandfield") =>
        IF WithValuesTrue(call.opts) /\ ~call.opts.val.count.some
        THEN /\ pc = "done"
             /\ result = Err(Client(<<"count must be specified to use with-values">>))
             /\ output = <<>> /\ io = <<>>
        ELSE Matched =>
             /\ sendret.val.tag = "BulkString" =>
                    result = Ok(Some(<<(<<sendret.val.val, NoneV>>)>>))
             /\ sendret.val.tag = "Null" => result = Ok(NoneV)
             /\ \A r \in FieldReplies : IsReply(r.reply) =>
                    IF r.items = <<>> THEN result = Ok(NoneV)
                    ELSE IF WithValuesTrue(call.opts)
                    THEN Len(r.items) % 2 = 0 => result = Ok(Some(Interleaved(r.items)))
                    ELSE result = Ok(Some(Bare(r.items)))

C20_Witness ==
    /\ Matched /\ call.cmd = "hrandfield"
    /\ WithValuesTrue(call.opts)
    /\ IsReply(decode(BulkArrayFrame(<<(<<"a">>), (<<"b">>)>>)))
    /\ result = Ok(Some(<<(<<(<<"a">>), Some(<<"b">>)>>)>>))

\* the result is an error of the Client kind
ClientError(r) == IsErr(r) /\ r.err.type = "Client"

\* C21: hlen and hstrlen accept only a non-negative Integer reply and return
\* it unchanged as an unsigned 64-bit value; a negative Integer reply yields a
\* Client error, never a wrapped-around unsigned value.
C21_NonNegativeOnly ==
    (Matched /\ call.cmd \in {"hlen", "hstrlen"} /\ sendret.val.tag = "Integer") =>
        IF sendret.val.val >= 0 THEN result = Ok(sendret.val.val)
        ELSE ClientError(result)

\* C22: set returns unit exactly when the reply is the simple string "OK"; a
\* Null reply yields Client("Operation aborted"); any other simple string
\* yields a Client error; get and hget return Some(value) for a BulkString
\* reply and None for a Null reply.
C22_SetGet ==
    Matched =>
        /\ call.cmd = "set" =>
               /\ result = Ok(Unit) <=>
                      (sendret.val.tag = "String" /\ sendret.val.val = <<"O", "K">>)
               /\ sendret.val.tag = "Null" => result = Err(Client(<<"Operation aborted">>))
               /\ sendret.val.tag = "String" => (IsOk(result) \/ ClientError(result))
        /\ call.cmd \in {"get", "hget"} =>
               /\ sendret.val.tag = "BulkString" => result = Ok(Some(sendret.val.val))
               /\ sendret.val.tag = "Null" => result = Ok(NoneV)

C22_Witness ==
    /\ Matched /\ call.cmd = "set"
    /\ sendret.val.tag = "Null"
    /\ frames = <<(<<"_", CR, LF>>)>>
    /\ result = Err(Client(<<"Operation aborted">>))

-----------------------------------------------------------------------------
(* The connect claims, under SpecConnect.  An abort inside hello aborts     *)
(* connect, which then returns nothing: kpc = "aborted".                    *)

\* the attempt opened the address and its hello returned Ok
Succeeded(t) == t.opened /\ t.hello = "ok"

\* the open, or the hello after it, returned an error
Failed(t) == ~t.opened \/ t.hello \in {"Resp", "Valkey", "Client"}

Rejected(t) == t.opened /\ t.hello \in {"Client", "Valkey"}

\* C28: when HELLO rejects the HelloOpts without a transport failure (auth or
\* client-name without proto-ver, or an Error reply of the server), connect
\* goes on to every resolved address in turn and in the end returns
\* Client("unable to connect to HOST:PORT"); the error of HELLO itself is
\* never what connect returns.
C28_HelloErrorHidden ==
    /\ (kpc = "returned" /\ tried # <<>> /\ Rejected(tried[Len(tried)])) =>
           (Len(tried) = Len(addrs.val)
            /\ kresult = Err(Client(<<"unable to connect to ", Host, ":", to_string(Port)>>)))
    /\ (tried # <<>> /\ NeedsProto(kopts)) =>
           /\ \A i \in 1..Len(tried) : tried[i].opened => tried[i].hello = "Client"
           /\ kpc = "returned" =>
                  (Len(tried) = Len(addrs.val)
                   /\ kresult = Err(Client(<<"unable to connect to ", Host, ":",
                                             to_string(Port)>>)))
    /\ (kpc = "returned" /\ IsOk(addrs) /\ IsErr(kresult)) =>
           kresult = Err(Client(<<"unable to connect to ", Host, ":", to_string(Port)>>))

C28_Witness ==
    /\ kpc = "returned" /\ IsOk(addrs) /\ Len(addrs.val) = 2
    /\ NeedsProto(kopts)
    /\ Len(tried) = 2 /\ Rejected(tried[1]) /\ Rejected(tried[2])
    /\ kresult = Err(Client(<<"unable to connect to ", Host, ":", to_string(Port)>>))

=============================================================================
